---- MODULE Spec2Model ----
(***************************************************************************)
(* A model of the bubble-db access layer: DatabaseConfig's connection      *)
(* string, the ToSql string literal, and the four backend adapters         *)
(* (MySqlConnection, SqliteConnection, PostgresConnection,                 *)
(* RedisConnection) driven by concurrent tasks, with DbError, transactions *)
(* and connection pools; and of bubble-macro's #[bubble] entry point and   *)
(* its attribute parser.                                                   *)
(*                                                                         *)
(* Text is modelled as a sequence of one-character strings, so that        *)
(* formatting, splitting and escaping are computed character by character. *)
(***************************************************************************)
EXTENDS Integers, Sequences, FiniteSets, TLC

VARIABLES
    cfg,        \* SpecConfig: the DatabaseConfig under derivation
    connStr,    \* SpecConfig: [derived, text], the last connection_string() result
    sqlIn,      \* SpecSql: the string handed to ToSql::to_sql
    sqlOut,     \* SpecSql: [impl, text], the last to_sql result (impl "None": none yet)
    kind,       \* Spec: the DatabaseType of the connection object the tasks share
    task,       \* Spec: per task, the operation it runs on the connection and its result
    lock,       \* Spec: the holder of the connection's tokio Mutex (MySql, Sqlite), or None
    committed,  \* Spec: the rows of the table that are durably stored, in insertion order
    sess,       \* Spec: the native session of the connection: [tx, pending, row_count]
    store,      \* Spec: the Redis server's keys
    err,        \* SpecErr: the DbError under classification: [variant, sub, msg]
    errOut,     \* SpecErr: [fn, value], the last classification (fn "None": none yet)
    colValue,   \* SpecValue: the mysql_async::Value of a column
    colText,    \* SpecValue: [method, text], its text in a returned row (method "None": none yet)
    txn,        \* SpecTx: the Transaction the caller began last, its state and pending writes
    persisted,  \* SpecTx: the writes the backend has made durable, in order
    pool,       \* SpecPool: the pool's accounting: [max_size, size, available, waiting]
    holder,     \* SpecPool: per task, where it stands with the pool and its last get()
    app,        \* SpecApp: the process of an application wrapped by #[bubble]
    attr,       \* SpecAttr: the attribute list handed to parse_bubble_config
    bubbleConfig \* SpecAttr: the BubbleConfig it returned (parsed FALSE: none yet)

None == "None"
NoConnStr == [derived |-> FALSE, text |-> <<>>]
NoSqlOut  == [impl |-> None, text |-> <<>>]

cfgVars  == <<cfg, connStr>>
sqlVars  == <<sqlIn, sqlOut>>
errVars  == <<err, errOut>>
valVars  == <<colValue, colText>>
txVars   == <<txn, persisted>>
poolVars == <<pool, holder>>
appVars  == <<app>>
attrVars == <<attr, bubbleConfig>>
extVars  == <<errVars, valVars, txVars, poolVars, appVars, attrVars>>
pureVars == <<cfg, connStr, sqlIn, sqlOut, extVars>>
connVars == <<kind, task, lock, committed, sess, store>>
notErrVars == <<cfgVars, sqlVars, connVars, valVars, txVars, poolVars, appVars, attrVars>>
notValVars == <<cfgVars, sqlVars, connVars, errVars, txVars, poolVars, appVars, attrVars>>
notTxVars  == <<cfg, connStr, sqlIn, sqlOut, task, lock, committed, sess, store, errVars,
                valVars, poolVars, appVars, attrVars>>
notPoolVars == <<cfgVars, sqlVars, connVars, errVars, valVars, txVars, appVars, attrVars>>
notAppVars  == <<cfgVars, sqlVars, connVars, errVars, valVars, txVars, poolVars, attrVars>>
notAttrVars == <<cfgVars, sqlVars, connVars, errVars, valVars, txVars, poolVars, appVars>>
vars     == <<cfg, connStr, sqlIn, sqlOut, kind, task, lock, committed, sess, store,
              extVars>>

(***************************************************************************)
(* Bounds of the model.                                                    *)
(***************************************************************************)
MaxStrLen == 3
MaxBatch == 2
MaxTxOps == 6

(***************************************************************************)
(* Text helpers.                                                           *)
(***************************************************************************)
Digits == <<"0", "1", "2", "3", "4", "5", "6", "7", "8", "9">>

RECURSIVE Itoa(_)
\* Display of an unsigned integer ({} in format!, to_string()): decimal, no padding.
Itoa(n) == IF n < 10 THEN <<Digits[n + 1]>>
           ELSE Itoa(n \div 10) \o <<Digits[(n % 10) + 1]>>

RECURSIVE Replace(_, _, _)
\* str::replace(from, to) for a one-character pattern `from`.
Replace(s, from, to) ==
    IF s = <<>> THEN <<>>
    ELSE IF Head(s) = from THEN to \o Replace(Tail(s), from, to)
    ELSE <<Head(s)>> \o Replace(Tail(s), from, to)

(***************************************************************************)
(* config.rs: DatabaseConfig::connection_string                            *)
(***************************************************************************)
DatabaseType == {"MySql", "Postgres", "Sqlite", "Redis"}

S_mysql      == <<"m", "y", "s", "q", "l", ":", "/", "/">>
S_postgresql == <<"p", "o", "s", "t", "g", "r", "e", "s", "q", "l", ":", "/", "/">>
S_redis      == <<"r", "e", "d", "i", "s", ":", "/", "/">>

\* format!("{}:{}@{}:{}/{}", username, password, host, port, database)
FormatUrlTail(c) ==
    c.username \o <<":">> \o c.password \o <<"@">> \o c.host \o <<":">>
        \o Itoa(c.port) \o <<"/">> \o c.database

\* A slip: the Postgres arm written with the scheme "postgres".
connection_string_WrongScheme(c) ==
    CASE c.database_type = "MySql"    -> S_mysql \o FormatUrlTail(c)
      [] c.database_type = "Postgres" ->
            <<"p", "o", "s", "t", "g", "r", "e", "s", ":", "/", "/">> \o FormatUrlTail(c)
      [] c.database_type = "Sqlite"   -> c.database
      [] c.database_type = "Redis"    -> S_redis \o FormatUrlTail(c)

connection_string(c) ==
    CASE c.database_type = "MySql"    -> S_mysql \o FormatUrlTail(c)
      [] c.database_type = "Postgres" -> S_postgresql \o FormatUrlTail(c)
      [] c.database_type = "Sqlite"   -> c.database
      [] c.database_type = "Redis"    -> S_redis \o FormatUrlTail(c)

(***************************************************************************)
(* The configurations the derivation is exercised on. The credentials      *)
(* include the reserved characters '@', ':' and '/'.                       *)
(***************************************************************************)
Usernames == { <<"u">>, <<"a", "@", "b">>, <<"a", ":", "b">> }
Passwords == { <<"p">>, <<>>, <<"p", "/", "q">>, <<"p", "@", "q">> }
Hosts     == { <<"l", "o", "c", "a", "l", "h", "o", "s", "t">> }
Ports     == { 5432, 0, 65535 }
Databases == { <<"d">>, <<"a", ".", "d", "b">> }

Configs ==
    [database_type : DatabaseType, username : Usernames, password : Passwords,
     host : Hosts, port : Ports, database : Databases]

\* The configuration of the documented scenario.
ScenarioConfig ==
    [database_type |-> "Postgres", username |-> <<"u">>, password |-> <<"p">>,
     host |-> <<"l", "o", "c", "a", "l", "h", "o", "s", "t">>, port |-> 5432,
     database |-> <<"d">>]

\* A caller builds another DatabaseConfig.
NewConfig ==
    /\ cfg' \in Configs
    /\ connStr' = NoConnStr
    /\ UNCHANGED <<sqlVars, connVars, extVars>>

\* A caller derives the connection string (as every connect() does).
DeriveConnectionString ==
    /\ ~connStr.derived
    /\ connStr' = [derived |-> TRUE, text |-> connection_string(cfg)]
    /\ UNCHANGED <<cfg, sqlVars, connVars, extVars>>

(***************************************************************************)
(* lib.rs: impl ToSql for String / &str                                    *)
(***************************************************************************)
Quote == "'"

\* A slip: the quotes are added but the inner quotes are not doubled.
QuoteLiteral_NoDoubling(s) == <<Quote>> \o s \o <<Quote>>

\* format!("'{}'", self.replace("'", "''"))
QuoteLiteral(s) == <<Quote>> \o Replace(s, Quote, <<Quote, Quote>>) \o <<Quote>>

to_sql_String(s) == QuoteLiteral(s)
to_sql_str(s)    == QuoteLiteral(s)

SqlAlphabet == {Quote, "a", " ", "\\"}

RECURSIVE StringsUpTo(_, _)
StringsUpTo(A, n) ==
    IF n = 0 THEN {<<>>}
    ELSE LET shorter == StringsUpTo(A, n - 1)
         IN  shorter \cup {Append(s, c) : s \in shorter, c \in A}

SqlStrings == StringsUpTo(SqlAlphabet, MaxStrLen)

NewSqlString ==
    /\ sqlIn' \in SqlStrings
    /\ sqlOut' = NoSqlOut
    /\ UNCHANGED <<cfgVars, connVars, extVars>>

ToSqlString ==
    /\ sqlOut.impl = None
    /\ sqlOut' = [impl |-> "String", text |-> to_sql_String(sqlIn)]
    /\ UNCHANGED <<cfgVars, sqlIn, connVars, extVars>>

ToSqlStr ==
    /\ sqlOut.impl = None
    /\ sqlOut' = [impl |-> "str", text |-> to_sql_str(sqlIn)]
    /\ UNCHANGED <<cfgVars, sqlIn, connVars, extVars>>

(***************************************************************************)
(* The URL grammar the drivers read a connection string with               *)
(* (mysql_async::Opts::from_url, PgPool::connect, redis::Client::open all  *)
(* parse with the WHATWG rules): the authority ends at the first '/', the  *)
(* LAST '@' of the authority ends the credentials, the FIRST ':' of the    *)
(* credentials ends the user name, the last ':' of the rest starts the     *)
(* port, which must be decimal digits.                                     *)
(***************************************************************************)
IndexOfFirst(s, c) ==
    IF \E i \in 1..Len(s) : s[i] = c
    THEN CHOOSE i \in 1..Len(s) : s[i] = c /\ \A j \in 1..(i - 1) : s[j] # c
    ELSE 0

IndexOfLast(s, c) ==
    IF \E i \in 1..Len(s) : s[i] = c
    THEN CHOOSE i \in 1..Len(s) : s[i] = c /\ \A j \in (i + 1)..Len(s) : s[j] # c
    ELSE 0

IsDigit(c) == \E d \in 1..10 : Digits[d] = c

DigitValue(c) == (CHOOSE d \in 1..10 : Digits[d] = c) - 1

RECURSIVE StrToNat(_)
StrToNat(s) == IF s = <<>> THEN 0
               ELSE StrToNat(SubSeq(s, 1, Len(s) - 1)) * 10 + DigitValue(s[Len(s)])

InvalidUrl == [valid |-> FALSE, username |-> <<>>, password |-> <<>>,
               host |-> <<>>, port |-> 0, database |-> <<>>]

ParseUrl(prefix, s) ==
    IF Len(s) < Len(prefix) \/ SubSeq(s, 1, Len(prefix)) # prefix THEN InvalidUrl
    ELSE
    LET rest      == SubSeq(s, Len(prefix) + 1, Len(s))
        slash     == IndexOfFirst(rest, "/")
        authority == IF slash = 0 THEN rest ELSE SubSeq(rest, 1, slash - 1)
        path      == IF slash = 0 THEN <<>> ELSE SubSeq(rest, slash + 1, Len(rest))
        at        == IndexOfLast(authority, "@")
        userinfo  == IF at = 0 THEN <<>> ELSE SubSeq(authority, 1, at - 1)
        hostport  == SubSeq(authority, at + 1, Len(authority))
        colon     == IndexOfFirst(userinfo, ":")
        user      == IF colon = 0 THEN userinfo ELSE SubSeq(userinfo, 1, colon - 1)
        pass      == IF colon = 0 THEN <<>>
                     ELSE SubSeq(userinfo, colon + 1, Len(userinfo))
        pcolon    == IndexOfLast(hostport, ":")
        hostname  == IF pcolon = 0 THEN hostport ELSE SubSeq(hostport, 1, pcolon - 1)
        portText  == IF pcolon = 0 THEN <<>>
                     ELSE SubSeq(hostport, pcolon + 1, Len(hostport))
    IN  IF hostname = <<>> \/ \E i \in 1..Len(portText) : ~IsDigit(portText[i])
        THEN InvalidUrl
        ELSE [valid |-> TRUE, username |-> user, password |-> pass,
              host |-> hostname, port |-> StrToNat(portText), database |-> path]

(***************************************************************************)
(* Values.  A serde_json::Value of a batch, the SQL literal it is written  *)
(* as, and the value a backend stores or returns for it.                   *)
(***************************************************************************)
JStr(s) == [j |-> "String", s |-> s, n |-> 0]
JNum(n) == [j |-> "Number", s |-> <<>>, n |-> n]
JNull   == [j |-> "Null", s |-> <<>>, n |-> 0]

TextV(s) == [type |-> "Text", text |-> s, num |-> 0]
IntV(n)  == [type |-> "Int", text |-> <<>>, num |-> n]
NullV    == [type |-> "Null", text |-> <<>>, num |-> 0]

S_NULL == <<"N", "U", "L", "L">>

\* crate::to_sql_value: strings quoted with the quotes doubled, numbers as they are,
\* null as NULL.
to_sql_value(item) ==
    CASE item.j = "String" -> [ok |-> TRUE, text |-> QuoteLiteral(item.s)]
      [] item.j = "Number" -> [ok |-> TRUE, text |-> Itoa(item.n)]
      [] item.j = "Null"   -> [ok |-> TRUE, text |-> S_NULL]

RECURSIVE Undouble(_)
\* Reads a literal's inside: '' stands for one quote, a lone quote is an error.
Undouble(s) ==
    IF s = <<>> THEN [ok |-> TRUE, text |-> <<>>]
    ELSE IF Head(s) # Quote
         THEN LET r == Undouble(Tail(s))
              IN  [ok |-> r.ok, text |-> <<Head(s)>> \o r.text]
    ELSE IF Len(s) >= 2 /\ s[2] = Quote
         THEN LET r == Undouble(SubSeq(s, 3, Len(s)))
              IN  [ok |-> r.ok, text |-> <<Quote>> \o r.text]
    ELSE [ok |-> FALSE, text |-> <<>>]

\* The value a SQL backend reads a literal as.
ReadSqlLiteral(lit) ==
    IF lit = S_NULL THEN NullV
    ELSE IF lit # <<>> /\ \A i \in 1..Len(lit) : IsDigit(lit[i]) THEN IntV(StrToNat(lit))
    ELSE TextV(Undouble(SubSeq(lit, 2, Len(lit) - 1)).text)

(***************************************************************************)
(* The SQL backends.  The table the statements address has one column v,   *)
(* TEXT NOT NULL UNIQUE: a NULL and a duplicate are rejected, a number is  *)
(* stored as its text.  A row remembers which kind of call wrote it        *)
(* (origin), which the backend itself does not see.                        *)
(***************************************************************************)
Stmt(verb, lits) == [verb |-> verb, lits |-> lits]

NoSession == [tx |-> FALSE, pending |-> <<>>, row_count |-> 0]

StoredText(v) == IF v.type = "Int" THEN Itoa(v.num) ELSE v.text

TextsOf(rows) == {rows[i].text : i \in 1..Len(rows)}

NativeOk(c, ss, cols, rows, affected) ==
    [ok |-> TRUE, msg |-> "", committed |-> c, sess |-> ss, cols |-> cols,
     rows |-> rows, affected |-> affected]

NativeErr(c, ss, msg) ==
    [ok |-> FALSE, msg |-> msg, committed |-> c, sess |-> ss, cols |-> <<>>,
     rows |-> <<>>, affected |-> 0]

\* INSERT INTO t VALUES (l1), (l2), ...: one statement, all rows or none.
NativeInsert(c, ss, lits, origin) ==
    LET vals    == [i \in 1..Len(lits) |-> ReadSqlLiteral(lits[i])]
        texts   == [i \in 1..Len(lits) |-> StoredText(vals[i])]
        visible == TextsOf(c) \cup TextsOf(ss.pending)
        new     == [i \in 1..Len(lits) |-> [text |-> texts[i], origin |-> origin]]
    IN  IF \E i \in 1..Len(lits) : vals[i].type = "Null"
        THEN NativeErr(c, [ss EXCEPT !.row_count = -1], "NOT NULL constraint failed")
        ELSE IF \/ \E i \in 1..Len(lits) : texts[i] \in visible
                \/ \E i, k \in 1..Len(lits) : i # k /\ texts[i] = texts[k]
        THEN NativeErr(c, [ss EXCEPT !.row_count = -1], "UNIQUE constraint failed")
        ELSE IF ss.tx
        THEN NativeOk(c, [ss EXCEPT !.pending = @ \o new, !.row_count = Len(lits)],
                      <<>>, <<>>, Len(lits))
        ELSE NativeOk(c \o new, [ss EXCEPT !.row_count = Len(lits)], <<>>, <<>>,
                      Len(lits))

\* The SELECT statements of the model.
SelectVerbs == {"SELECT", "SELECT_NONE", "SELECT_TYPED", "SELECT_JOIN"}

\* The result set of a SELECT: the table as the session sees it, no row, one row of a
\* number, a NULL and a text, or one row of a join whose two columns are both named id.
NativeSelect(c, ss, verb) ==
    LET seen == c \o ss.pending
        ss2  == [ss EXCEPT !.row_count = -1]
    IN  CASE verb = "SELECT" ->
                NativeOk(c, ss2, <<"v">>,
                         [i \in 1..Len(seen) |-> <<TextV(seen[i].text)>>], 0)
          [] verb = "SELECT_NONE" -> NativeOk(c, ss2, <<"v">>, <<>>, 0)
          [] verb = "SELECT_TYPED" ->
                NativeOk(c, ss2, <<"n", "z", "s">>,
                         << <<IntV(7), NullV, TextV(<<"a">>)>> >>, 0)
          [] verb = "SELECT_JOIN" ->
                NativeOk(c, ss2, <<"id", "id">>, << <<NullV, TextV(<<"a">>)>> >>, 0)

\* A MySQL session (autocommit on): START TRANSACTION commits an open transaction
\* before it opens the next one; COMMIT and ROLLBACK close it.
MySqlRun(c, ss, stmt, origin) ==
    CASE stmt.verb = "INSERT" -> NativeInsert(c, ss, stmt.lits, origin)
      [] stmt.verb \in SelectVerbs ->
            NativeSelect(c, ss, stmt.verb)
      [] stmt.verb = "START TRANSACTION" ->
            NativeOk(c \o ss.pending, [tx |-> TRUE, pending |-> <<>>, row_count |-> 0],
                     <<>>, <<>>, 0)
      [] stmt.verb = "COMMIT" ->
            NativeOk(c \o ss.pending, NoSession, <<>>, <<>>, 0)
      [] stmt.verb = "ROLLBACK" -> NativeOk(c, NoSession, <<>>, <<>>, 0)
      [] OTHER -> NativeErr(c, [ss EXCEPT !.row_count = -1], "syntax error")

\* A rusqlite connection: COMMIT and ROLLBACK outside a transaction are errors.
SqliteRun(c, ss, stmt, origin) ==
    CASE stmt.verb = "INSERT" -> NativeInsert(c, ss, stmt.lits, origin)
      [] stmt.verb \in SelectVerbs ->
            NativeSelect(c, ss, stmt.verb)
      [] stmt.verb = "BEGIN" ->
            IF ss.tx THEN NativeErr(c, ss, "cannot start a transaction within a transaction")
            ELSE NativeOk(c, [ss EXCEPT !.tx = TRUE], <<>>, <<>>, 0)
      [] stmt.verb = "COMMIT" ->
            IF ss.tx THEN NativeOk(c \o ss.pending, NoSession, <<>>, <<>>, 0)
            ELSE NativeErr(c, ss, "cannot commit - no transaction is active")
      [] stmt.verb = "ROLLBACK" ->
            IF ss.tx THEN NativeOk(c, NoSession, <<>>, <<>>, 0)
            ELSE NativeErr(c, ss, "cannot rollback - no transaction is active")
      [] OTHER -> NativeErr(c, ss, "syntax error")

\* A statement on a connection of the sqlx pool: its own autocommit session; COMMIT
\* and ROLLBACK outside a transaction only warn.
PostgresRun(c, stmt, origin) ==
    CASE stmt.verb = "INSERT" -> NativeInsert(c, NoSession, stmt.lits, origin)
      [] stmt.verb \in SelectVerbs ->
            NativeSelect(c, NoSession, stmt.verb)
      [] stmt.verb \in {"COMMIT", "ROLLBACK"} -> NativeOk(c, NoSession, <<>>, <<>>, 0)
      [] OTHER -> NativeErr(c, NoSession, "syntax error")

(***************************************************************************)
(* The tasks that share the connection object, and what a call returns.    *)
(* DbResult: Ok with a count (execute, insert_batch) or with JSON (query:  *)
(* an array of objects; query_one: one object), or Err.  The adapters      *)
(* build every error from a message string (e.to_string(), a literal); no  *)
(* DbError variant is chosen, so an error's kind is "String".              *)
(***************************************************************************)
\* The tasks that can hold a reference to the connection object; a task that holds
\* none is "absent".
Tasks == {"t1", "t2"}

NoJson        == [shape |-> "none", items |-> <<>>, map |-> <<>>]
JsonArray(xs) == [shape |-> "array", items |-> xs, map |-> <<>>]
JsonObject(m) == [shape |-> "object", items |-> <<>>, map |-> m]

NoRes       == [tag |-> "None", n |-> 0, json |-> NoJson, kind |-> "", msg |-> ""]
OkCount(n)  == [tag |-> "Ok", n |-> n, json |-> NoJson, kind |-> "", msg |-> ""]
OkJson(j)   == [tag |-> "Ok", n |-> 0, json |-> j, kind |-> "", msg |-> ""]
ErrMsg(m)   == [tag |-> "Err", n |-> 0, json |-> NoJson, kind |-> "String", msg |-> m]
Panicked    == [tag |-> "Panic", n |-> 0, json |-> NoJson, kind |-> "", msg |-> ""]

NoStmt  == Stmt("", <<>>)
NoBatch == [valid |-> TRUE, items |-> <<>>]

AbsentTask ==
    [pc |-> "absent", op |-> "", stmt |-> NoStmt, cmd |-> <<>>, batch |-> NoBatch,
     phase |-> 0, count |-> 0, touched |-> FALSE, defaulted |-> FALSE, res |-> NoRes]

IdleTask ==
    [pc |-> "idle", op |-> "", stmt |-> NoStmt, cmd |-> <<>>, batch |-> NoBatch,
     phase |-> 0, count |-> 0, touched |-> FALSE, defaulted |-> FALSE, res |-> NoRes]

\* The statements and batches the callers pass.
S_a == <<"a">>

ExecStatements ==
    { Stmt("INSERT", <<QuoteLiteral(S_a)>>), Stmt("INSERT", <<S_NULL>>),
      Stmt("COMMIT", <<>>), Stmt("ROLLBACK", <<>>), Stmt("DROP TABLE nonexistent", <<>>) }

QueryStatements ==
    { Stmt("SELECT", <<>>), Stmt("SELECT_NONE", <<>>), Stmt("SELECT_TYPED", <<>>),
      Stmt("SELECT_JOIN", <<>>), Stmt("SELEC", <<>>) }

\* execute is also handed a statement that returns a result set: ROW_COUNT() is -1
\* after it.
MySqlExecStatements == ExecStatements \cup { Stmt("SELECT_NONE", <<>>) }

BatchItems == { JStr(S_a), JNum(7), JNull }

RECURSIVE SeqsUpTo(_, _)
SeqsUpTo(A, n) ==
    IF n = 0 THEN {<<>>}
    ELSE LET shorter == SeqsUpTo(A, n - 1)
         IN  shorter \cup {Append(q, x) : q \in shorter, x \in A}

\* json_data: text that is no JSON array, or an array of up to MaxBatch items.
Batches ==
    {[valid |-> FALSE, items |-> <<>>]}
        \cup {[valid |-> TRUE, items |-> q] : q \in SeqsUpTo(BatchItems, MaxBatch)}

S_t == <<"t">>

(***************************************************************************)
(* Steps shared by the adapters' methods.                                  *)
(***************************************************************************)
CanCall(t) == task[t].pc \in {"idle", "done"}

\* The task's record when its call returns res.
Returned(t, res) ==
    [task[t] EXCEPT !.pc = "done", !.res = res, !.phase = 0, !.count = 0]

\* self.conn.lock().await of method op: the task waits until the Mutex is free.
Locking(t, op) ==
    /\ task[t].pc = "called"
    /\ task[t].op = op
    /\ lock = None
    /\ lock' = t
    /\ task' = [task EXCEPT ![t] = [@ EXCEPT !.pc = "native", !.touched = TRUE]]
    /\ UNCHANGED <<pureVars, kind, committed, sess, store>>

Running(t, op) == task[t].pc = "native" /\ task[t].op = op

\* A row mapping that leaves out the columns whose text is empty.
RowMap_SkipsEmpty(cols, texts) ==
    [name \in {cols[i] : i \in {k \in 1..Len(cols) : texts[k] # <<>>}} |->
        texts[CHOOSE i \in 1..Len(cols) :
                cols[i] = name /\ \A k \in (i + 1)..Len(cols) : cols[k] # name]]

\* HashMap::insert of every column's name and text: a later column of the same name
\* replaces an earlier one.
RowMap(cols, texts) ==
    [name \in {cols[i] : i \in 1..Len(cols)} |->
        texts[CHOOSE i \in 1..Len(cols) :
                cols[i] = name /\ \A k \in (i + 1)..Len(cols) : cols[k] # name]]

\* unwrap_or_default() / unwrap_or(d) on a decode result.
UnwrapOr(r, d) == IF r.ok THEN r.text ELSE d

\* The rows of a cancelled batch are marked as such (bookkeeping of the model).
Relabel(rows, from, to) ==
    [i \in 1..Len(rows) |->
        IF rows[i].origin = from THEN [rows[i] EXCEPT !.origin = to] ELSE rows[i]]

(***************************************************************************)
(* The command strings the callers pass to the Redis adapter.              *)
(***************************************************************************)
Cmd_SetK1    == <<"S", "E", "T", " ", "k", "1", " ", "h", "e", "l", "l", "o", " ", "w", "o", "r", "l", "d">>
Cmd_SetLower == <<"s", "e", "t", " ", "k", "2", " ", "v">>
Cmd_Del      == <<"D", "E", "L", " ", "k", "1", " ", "k", "2">>
Cmd_HSet     == <<"H", "S", "E", "T", " ", "k", "1", " ", "f", " ", "v">>
Cmd_SetShort == <<"S", "E", "T", " ", "k", "1">>
Cmd_Empty    == <<>>
Cmd_Blank    == <<" ">>
Cmd_GetK1    == <<"G", "E", "T", " ", "k", "1">>
Cmd_GetK2    == <<"g", "e", "t", " ", " ", "k", "2">>
Cmd_HGetAll  == <<"H", "G", "E", "T", "A", "L", "L", " ", "k", "1">>
Cmd_GetLong  == <<"G", "E", "T", " ", "k", "1", " ", "k", "2">>
Cmd_Ping     == <<"P", "I", "N", "G">>

RedisExecuteCommands ==
    {Cmd_SetK1, Cmd_SetLower, Cmd_Del, Cmd_HSet, Cmd_SetShort, Cmd_Empty, Cmd_GetK1}

RedisQueryCommands ==
    {Cmd_GetK1, Cmd_GetK2, Cmd_HGetAll, Cmd_GetLong, Cmd_Empty, Cmd_Blank, Cmd_Ping}

(***************************************************************************)
(* The callers: a task calls a method of the shared connection.            *)
(***************************************************************************)
\* A caller passes a statement to a SQL adapter and a command string to the Redis one.
Called(t, op, stmts, cmds) ==
    /\ CanCall(t)
    /\ \E st \in (IF kind = "Redis" THEN {NoStmt} ELSE stmts),
          c \in (IF kind = "Redis" THEN cmds ELSE {<<>>}) :
        task' = [task EXCEPT ![t] =
                    [IdleTask EXCEPT !.pc = "called", !.op = op, !.stmt = st, !.cmd = c]]
    /\ UNCHANGED <<pureVars, kind, lock, committed, sess, store>>

CallExecute(t, stmts, cmds) == Called(t, "execute", stmts, cmds)

CallQuery(t, stmts, cmds) == Called(t, "query", stmts, cmds)

CallQueryOne(t, stmts, cmds) == Called(t, "query_one", stmts, cmds)

CallInsertBatch(t, batches) ==
    /\ CanCall(t)
    /\ \E b \in batches :
        task' = [task EXCEPT ![t] =
                    [IdleTask EXCEPT !.pc = "called", !.op = "insert_batch",
                                     !.batch = b]]
    /\ UNCHANGED <<pureVars, kind, lock, committed, sess, store>>

(***************************************************************************)
(* mysql.rs: impl DatabaseConnection for MySqlConnection                   *)
(***************************************************************************)
\* match opt_value { Int(i) => i.to_string(), Bytes(b) => from_utf8_lossy(b),
\*                   None | NULL => "" }
\* mysql_async::Value::Date(year, month, day, hour, minute, second, micro)
DateV(y, mo, d, h, mi, sec, us) ==
    [type |-> "Date", year |-> y, month |-> mo, day |-> d, hour |-> h, minute |-> mi,
     second |-> sec, micro |-> us]

\* mysql_async::Value::Time(neg, days, hours, minutes, seconds, micros)
TimeV(neg, d, h, mi, sec, us) ==
    [type |-> "Time", neg |-> neg, days |-> d, hours |-> h, minutes |-> mi,
     seconds |-> sec, micros |-> us]

RECURSIVE Zeros(_)
Zeros(n) == IF n <= 0 THEN <<>> ELSE <<"0">> \o Zeros(n - 1)

\* {:0w}: the decimal digits of n, zeros in front up to the width w
Pad(n, w) == Zeros(w - Len(Itoa(n))) \o Itoa(n)

\* format!("{}-{:02}-{:02} {:02}:{:02}:{:02}.{:06}", year as i32, month, ...)
MySqlFormatDate(v) ==
    Itoa(v.year) \o <<"-">> \o Pad(v.month, 2) \o <<"-">> \o Pad(v.day, 2) \o <<" ">>
        \o Pad(v.hour, 2) \o <<":">> \o Pad(v.minute, 2) \o <<":">> \o Pad(v.second, 2)
        \o <<".">> \o Pad(v.micro, 6)

\* format!("{} days {}:{:02}:{:02}.{:06}", days, hours, minutes, seconds, micros);
\* the signed total computed before it is not used.
MySqlFormatTime(v) ==
    Itoa(v.days) \o <<" ", "d", "a", "y", "s", " ">> \o Itoa(v.hours) \o <<":">>
        \o Pad(v.minutes, 2) \o <<":">> \o Pad(v.seconds, 2) \o <<".">> \o Pad(v.micros, 6)

MySqlValueText(v) ==
    CASE v.type = "Int"  -> Itoa(v.num)
      [] v.type = "Text" -> v.text
      [] v.type = "Date" -> MySqlFormatDate(v)
      [] v.type = "Time" -> MySqlFormatTime(v)
      [] v.type = "Null" -> <<>>

\* The date/time and duration values a column can hold.
MySqlDates ==
    {DateV(y, mo, d, h, mi, sec, us) :
        y \in {0, 999, 2024, 9999}, mo \in {1, 12}, d \in {1, 31}, h \in {0, 23},
        mi \in {0, 59}, sec \in {0, 59}, us \in {0, 5, 999999}}

MySqlTimes ==
    {TimeV(neg, d, h, mi, sec, us) :
        neg \in BOOLEAN, d \in {0, 1, 34}, h \in {0, 9, 23}, mi \in {0, 59},
        sec \in {0, 59}, us \in {0, 999999}}

NoValOut == [method |-> None, text |-> <<>>]

\* A column of a result set holds another value.
NewValue ==
    /\ colValue' \in MySqlDates \cup MySqlTimes
    /\ colText' = NoValOut
    /\ UNCHANGED notValVars

\* query: the match on the column's value
RenderInQuery ==
    /\ colText.method = None
    /\ colText' = [method |-> "query", text |-> MySqlValueText(colValue)]
    /\ UNCHANGED <<colValue, notValVars>>

\* query_one: the same match
RenderInQueryOne ==
    /\ colText.method = None
    /\ colText' = [method |-> "query_one", text |-> MySqlValueText(colValue)]
    /\ UNCHANGED <<colValue, notValVars>>

ValIdle == colValue = NullV /\ colText = NoValOut

MySqlRowToMap(cols, row) ==
    RowMap(cols, [i \in 1..Len(row) |-> MySqlValueText(row[i])])

MySqlExecuteLock(t) == kind = "MySql" /\ Locking(t, "execute")

\* conn.query_drop(sql).await.map_err(..)?
MySqlExecuteDrop(t) ==
    /\ kind = "MySql"
    /\ Running(t, "execute")
    /\ task[t].phase = 0
    /\ LET r == MySqlRun(committed, sess, task[t].stmt, "execute")
       IN  /\ committed' = r.committed
           /\ sess' = r.sess
           /\ IF r.ok
              THEN /\ task' = [task EXCEPT ![t] = [@ EXCEPT !.phase = 1]]
                   /\ lock' = lock
              ELSE /\ task' = [task EXCEPT ![t] = Returned(t, ErrMsg(r.msg))]
                   /\ lock' = None
    /\ UNCHANGED <<pureVars, kind, store>>

\* The count of ROW_COUNT() as it comes.
MySqlAffected_Raw(row_count) == row_count

\* let affected: i64 = row.get(0).unwrap_or(0); affected.max(0) as u64
MySqlAffected(row_count) == IF row_count > 0 THEN row_count ELSE 0

\* conn.query_iter("SELECT ROW_COUNT()") and the count read from its first row
MySqlExecuteRowCount(t) ==
    /\ kind = "MySql"
    /\ Running(t, "execute")
    /\ task[t].phase = 1
    /\ task' = [task EXCEPT ![t] = Returned(t, OkCount(MySqlAffected(sess.row_count)))]
    /\ sess' = [sess EXCEPT !.row_count = -1]
    /\ lock' = None
    /\ UNCHANGED <<pureVars, kind, committed, store>>

MySqlQueryLock(t) == kind = "MySql" /\ Locking(t, "query")

MySqlQueryRun(t) ==
    /\ kind = "MySql"
    /\ Running(t, "query")
    /\ LET r == MySqlRun(committed, sess, task[t].stmt, "execute")
           results == [i \in 1..Len(r.rows) |-> MySqlRowToMap(r.cols, r.rows[i])]
       IN  /\ committed' = r.committed
           /\ sess' = r.sess
           /\ task' = [task EXCEPT ![t] =
                          Returned(t, IF r.ok THEN OkJson(JsonArray(results))
                                      ELSE ErrMsg(r.msg))]
    /\ lock' = None
    /\ UNCHANGED <<pureVars, kind, store>>

MySqlQueryOneLock(t) == kind = "MySql" /\ Locking(t, "query_one")

MySqlQueryOneRun(t) ==
    /\ kind = "MySql"
    /\ Running(t, "query_one")
    /\ LET r == MySqlRun(committed, sess, task[t].stmt, "execute")
       IN  /\ committed' = r.committed
           /\ sess' = r.sess
           /\ task' = [task EXCEPT ![t] =
                          Returned(t,
                              IF ~r.ok THEN ErrMsg(r.msg)
                              ELSE IF r.rows # <<>>
                              THEN OkJson(JsonObject(MySqlRowToMap(r.cols, r.rows[1])))
                              ELSE ErrMsg("No rows found"))]
    /\ lock' = None
    /\ UNCHANGED <<pureVars, kind, store>>

\* serde_json::from_str(json_data)?; if items.is_empty() { return Ok(0); }
MySqlInsertBatchParse(t) ==
    /\ kind = "MySql"
    /\ task[t].pc = "called"
    /\ task[t].op = "insert_batch"
    /\ ~task[t].batch.valid \/ task[t].batch.items = <<>>
    /\ task' = [task EXCEPT ![t] =
                   Returned(t, IF ~task[t].batch.valid
                               THEN ErrMsg("Failed to parse JSON data")
                               ELSE OkCount(0))]
    /\ UNCHANGED <<pureVars, kind, lock, committed, sess, store>>

\* self.conn.lock().await; conn.query_drop("START TRANSACTION")
MySqlInsertBatchStart(t) ==
    /\ kind = "MySql"
    /\ task[t].pc = "called"
    /\ task[t].op = "insert_batch"
    /\ task[t].batch.valid
    /\ task[t].batch.items # <<>>
    /\ lock = None
    /\ lock' = t
    /\ LET r == MySqlRun(committed, sess, Stmt("START TRANSACTION", <<>>), "batch")
       IN  committed' = r.committed /\ sess' = r.sess
    /\ task' = [task EXCEPT ![t] =
                   [@ EXCEPT !.pc = "native", !.touched = TRUE, !.phase = 1, !.count = 0]]
    /\ UNCHANGED <<pureVars, kind, store>>

\* for item in items { to_sql_value(&item)?; conn.query_drop(&sql)?; count += 1; }
\* An error returns at once: the guard of the Mutex is dropped, nothing else is sent.
MySqlInsertBatchInsert(t) ==
    /\ kind = "MySql"
    /\ Running(t, "insert_batch")
    /\ task[t].phase <= Len(task[t].batch.items)
    /\ LET value == to_sql_value(task[t].batch.items[task[t].phase])
           r     == MySqlRun(committed, sess, Stmt("INSERT", <<value.text>>), "batch")
       IN  IF value.ok /\ r.ok
           THEN /\ committed' = r.committed
                /\ sess' = r.sess
                /\ task' = [task EXCEPT ![t] =
                               [@ EXCEPT !.phase = @ + 1, !.count = @ + 1]]
                /\ lock' = lock
           ELSE /\ committed' = Relabel(r.committed, "batch", "failed")
                /\ sess' = [r.sess EXCEPT !.pending = Relabel(@, "batch", "failed")]
                /\ task' = [task EXCEPT ![t] =
                               Returned(t, ErrMsg(IF value.ok THEN r.msg
                                                  ELSE "unsupported value"))]
                /\ lock' = None
    /\ UNCHANGED <<pureVars, kind, store>>

\* conn.query_drop("COMMIT"); Ok(count)
MySqlInsertBatchCommit(t) ==
    /\ kind = "MySql"
    /\ Running(t, "insert_batch")
    /\ task[t].phase > Len(task[t].batch.items)
    /\ LET r == MySqlRun(committed, sess, Stmt("COMMIT", <<>>), "batch")
       IN  /\ committed' = Relabel(r.committed, "batch", "batch_ok")
           /\ sess' = r.sess
    /\ task' = [task EXCEPT ![t] = Returned(t, OkCount(task[t].count))]
    /\ lock' = None
    /\ UNCHANGED <<pureVars, kind, store>>

MySqlNext(t) ==
    \/ MySqlExecuteLock(t) \/ MySqlExecuteDrop(t) \/ MySqlExecuteRowCount(t)
    \/ MySqlQueryLock(t) \/ MySqlQueryRun(t)
    \/ MySqlQueryOneLock(t) \/ MySqlQueryOneRun(t)
    \/ MySqlInsertBatchParse(t) \/ MySqlInsertBatchStart(t)
    \/ MySqlInsertBatchInsert(t) \/ MySqlInsertBatchCommit(t)

(***************************************************************************)
(* sqlite.rs: impl DatabaseConnection for SqliteConnection                 *)
(***************************************************************************)
\* row.get::<_, String>(i): only a TEXT value reads as a String.
SqliteGetString(v) ==
    IF v.type = "Text" THEN [ok |-> TRUE, text |-> v.text]
    ELSE [ok |-> FALSE, text |-> <<>>]

\* let value: String = row.get(i).unwrap_or_default(); map.insert(name, value)
SqliteRowToMap(cols, row) ==
    RowMap(cols, [i \in 1..Len(row) |-> UnwrapOr(SqliteGetString(row[i]), <<>>)])

SqliteDefaulted(rows) ==
    \E i \in 1..Len(rows) : \E k \in 1..Len(rows[i]) : ~SqliteGetString(rows[i][k]).ok

SqliteExecuteLock(t) == kind = "Sqlite" /\ Locking(t, "execute")

\* conn.execute(sql, []).map(|n| n as u64).map_err(..)
SqliteExecuteRun(t) ==
    /\ kind = "Sqlite"
    /\ Running(t, "execute")
    /\ LET r == SqliteRun(committed, sess, task[t].stmt, "execute")
       IN  /\ committed' = r.committed
           /\ sess' = r.sess
           /\ task' = [task EXCEPT ![t] =
                          Returned(t, IF r.ok THEN OkCount(r.affected) ELSE ErrMsg(r.msg))]
    /\ lock' = None
    /\ UNCHANGED <<pureVars, kind, store>>

SqliteQueryLock(t) == kind = "Sqlite" /\ Locking(t, "query")

SqliteQueryRun(t) ==
    /\ kind = "Sqlite"
    /\ Running(t, "query")
    /\ LET r == SqliteRun(committed, sess, task[t].stmt, "execute")
           results == [i \in 1..Len(r.rows) |-> SqliteRowToMap(r.cols, r.rows[i])]
       IN  /\ committed' = r.committed
           /\ sess' = r.sess
           /\ task' = [task EXCEPT ![t] =
                          [Returned(t, IF r.ok THEN OkJson(JsonArray(results))
                                       ELSE ErrMsg(r.msg))
                             EXCEPT !.defaulted = r.ok /\ SqliteDefaulted(r.rows)]]
    /\ lock' = None
    /\ UNCHANGED <<pureVars, kind, store>>

SqliteQueryOneLock(t) == kind = "Sqlite" /\ Locking(t, "query_one")

SqliteQueryOneRun(t) ==
    /\ kind = "Sqlite"
    /\ Running(t, "query_one")
    /\ LET r == SqliteRun(committed, sess, task[t].stmt, "execute")
       IN  /\ committed' = r.committed
           /\ sess' = r.sess
           /\ task' = [task EXCEPT ![t] =
                          [Returned(t,
                               IF ~r.ok THEN ErrMsg(r.msg)
                               ELSE IF r.rows # <<>>
                               THEN OkJson(JsonObject(SqliteRowToMap(r.cols, r.rows[1])))
                               ELSE ErrMsg("No rows found"))
                             EXCEPT !.defaulted =
                                 r.ok /\ r.rows # <<>> /\ SqliteDefaulted(<<r.rows[1]>>)]]
    /\ lock' = None
    /\ UNCHANGED <<pureVars, kind, store>>

SqliteInsertBatchParse(t) ==
    /\ kind = "Sqlite"
    /\ task[t].pc = "called"
    /\ task[t].op = "insert_batch"
    /\ ~task[t].batch.valid \/ task[t].batch.items = <<>>
    /\ task' = [task EXCEPT ![t] =
                   Returned(t, IF ~task[t].batch.valid
                               THEN ErrMsg("Failed to parse JSON data")
                               ELSE OkCount(0))]
    /\ UNCHANGED <<pureVars, kind, lock, committed, sess, store>>

\* self.conn.lock().await; let tx = conn.transaction()?
SqliteInsertBatchStart(t) ==
    /\ kind = "Sqlite"
    /\ task[t].pc = "called"
    /\ task[t].op = "insert_batch"
    /\ task[t].batch.valid
    /\ task[t].batch.items # <<>>
    /\ lock = None
    /\ LET r == SqliteRun(committed, sess, Stmt("BEGIN", <<>>), "batch")
       IN  /\ committed' = r.committed
           /\ sess' = r.sess
           /\ IF r.ok
              THEN /\ lock' = t
                   /\ task' = [task EXCEPT ![t] =
                                  [@ EXCEPT !.pc = "native", !.touched = TRUE,
                                            !.phase = 1, !.count = 0]]
              ELSE /\ lock' = None
                   /\ task' = [task EXCEPT ![t] =
                                  [Returned(t, ErrMsg(r.msg)) EXCEPT !.touched = TRUE]]
    /\ UNCHANGED <<pureVars, kind, store>>

\* A slip: the transaction is not rolled back when it is dropped on an error.
SqliteDropTransaction_KeepOpen(c, ss) == [committed |-> c, sess |-> ss]

\* Drop of a rusqlite Transaction that was not committed: it is rolled back.
SqliteDropTransaction(c, ss) == [committed |-> c, sess |-> NoSession]

\* for item in items.iter() { to_sql_value(item)?; tx.execute(&sql, [])?; }
SqliteInsertBatchInsert(t) ==
    /\ kind = "Sqlite"
    /\ Running(t, "insert_batch")
    /\ task[t].phase <= Len(task[t].batch.items)
    /\ LET value == to_sql_value(task[t].batch.items[task[t].phase])
           r     == SqliteRun(committed, sess, Stmt("INSERT", <<value.text>>), "batch")
           d     == SqliteDropTransaction(r.committed, r.sess)
       IN  IF value.ok /\ r.ok
           THEN /\ committed' = r.committed
                /\ sess' = r.sess
                /\ task' = [task EXCEPT ![t] =
                               [@ EXCEPT !.phase = @ + 1, !.count = @ + 1]]
                /\ lock' = lock
           ELSE /\ committed' = Relabel(d.committed, "batch", "failed")
                /\ sess' = [d.sess EXCEPT !.pending = Relabel(@, "batch", "failed")]
                /\ task' = [task EXCEPT ![t] =
                               Returned(t, ErrMsg(IF value.ok THEN r.msg
                                                  ELSE "unsupported value"))]
                /\ lock' = None
    /\ UNCHANGED <<pureVars, kind, store>>

\* tx.commit()?; Ok(items.len() as u64)
SqliteInsertBatchCommit(t) ==
    /\ kind = "Sqlite"
    /\ Running(t, "insert_batch")
    /\ task[t].phase > Len(task[t].batch.items)
    /\ LET r == SqliteRun(committed, sess, Stmt("COMMIT", <<>>), "batch")
       IN  /\ committed' = Relabel(r.committed, "batch", "batch_ok")
           /\ sess' = r.sess
    /\ task' = [task EXCEPT ![t] = Returned(t, OkCount(Len(task[t].batch.items)))]
    /\ lock' = None
    /\ UNCHANGED <<pureVars, kind, store>>

SqliteNext(t) ==
    \/ SqliteExecuteLock(t) \/ SqliteExecuteRun(t)
    \/ SqliteQueryLock(t) \/ SqliteQueryRun(t)
    \/ SqliteQueryOneLock(t) \/ SqliteQueryOneRun(t)
    \/ SqliteInsertBatchParse(t) \/ SqliteInsertBatchStart(t)
    \/ SqliteInsertBatchInsert(t) \/ SqliteInsertBatchCommit(t)

(***************************************************************************)
(* postgres.rs: impl DatabaseConnection for PostgresConnection             *)
(* The object holds a sqlx Pool, not a Mutex: a call takes no lock.        *)
(***************************************************************************)
\* row.try_get::<String, _>(i): only a text value reads as a String.
PostgresTryGetString(v) ==
    IF v.type = "Text" THEN [ok |-> TRUE, text |-> v.text]
    ELSE [ok |-> FALSE, text |-> <<>>]

\* let value: String = row.try_get(i).unwrap_or_default(); map.insert(name, value)
PostgresRowToMap(cols, row) ==
    RowMap(cols, [i \in 1..Len(row) |-> UnwrapOr(PostgresTryGetString(row[i]), <<>>)])

PostgresDefaulted(rows) ==
    \E i \in 1..Len(rows) : \E k \in 1..Len(rows[i]) : ~PostgresTryGetString(rows[i][k]).ok

\* A call hands its statement to the pool: sqlx::query(sql).execute / fetch_all /
\* fetch_one (&self.pool) is in flight.
PostgresSend(t, op) ==
    /\ kind = "Postgres"
    /\ task[t].pc = "called"
    /\ task[t].op = op
    /\ task' = [task EXCEPT ![t] = [@ EXCEPT !.pc = "native", !.touched = TRUE]]
    /\ UNCHANGED <<pureVars, kind, lock, committed, sess, store>>

PostgresExecuteSend(t) == PostgresSend(t, "execute")

\* sqlx::query(sql).execute(&self.pool).await?; Ok(result.rows_affected())
\* insert_batch ends in self.execute(&sql) and returns what it returns.
PostgresExecuteRun(t) ==
    /\ kind = "Postgres"
    /\ Running(t, "execute") \/ Running(t, "insert_batch")
    /\ LET r == PostgresRun(committed, task[t].stmt,
                            IF task[t].op = "execute" THEN "execute" ELSE "batch_ok")
       IN  /\ committed' = r.committed
           /\ task' = [task EXCEPT ![t] =
                          Returned(t, IF r.ok THEN OkCount(r.affected) ELSE ErrMsg(r.msg))]
    /\ UNCHANGED <<pureVars, kind, lock, sess, store>>

PostgresQuerySend(t) == PostgresSend(t, "query")

PostgresQueryRun(t) ==
    /\ kind = "Postgres"
    /\ Running(t, "query")
    /\ LET r == PostgresRun(committed, task[t].stmt, "execute")
           results == [i \in 1..Len(r.rows) |-> PostgresRowToMap(r.cols, r.rows[i])]
       IN  /\ committed' = r.committed
           /\ task' = [task EXCEPT ![t] =
                          [Returned(t, IF r.ok THEN OkJson(JsonArray(results))
                                       ELSE ErrMsg(r.msg))
                             EXCEPT !.defaulted = r.ok /\ PostgresDefaulted(r.rows)]]
    /\ UNCHANGED <<pureVars, kind, lock, sess, store>>

PostgresQueryOneSend(t) == PostgresSend(t, "query_one")

\* fetch_one: the first row, or sqlx::Error::RowNotFound, which map_err turns into
\* its message.
PostgresQueryOneRun(t) ==
    /\ kind = "Postgres"
    /\ Running(t, "query_one")
    /\ LET r == PostgresRun(committed, task[t].stmt, "execute")
       IN  /\ committed' = r.committed
           /\ task' = [task EXCEPT ![t] =
                          [Returned(t,
                               IF ~r.ok THEN ErrMsg(r.msg)
                               ELSE IF r.rows # <<>>
                               THEN OkJson(JsonObject(PostgresRowToMap(r.cols, r.rows[1])))
                               ELSE ErrMsg("no rows returned by a query that expected to return at least one row"))
                             EXCEPT !.defaulted =
                                 r.ok /\ r.rows # <<>> /\ PostgresDefaulted(<<r.rows[1]>>)]]
    /\ UNCHANGED <<pureVars, kind, lock, sess, store>>

PostgresInsertBatchParse(t) ==
    /\ kind = "Postgres"
    /\ task[t].pc = "called"
    /\ task[t].op = "insert_batch"
    /\ ~task[t].batch.valid \/ task[t].batch.items = <<>>
    /\ task' = [task EXCEPT ![t] =
                   Returned(t, IF ~task[t].batch.valid
                               THEN ErrMsg("Failed to parse JSON data")
                               ELSE OkCount(0))]
    /\ UNCHANGED <<pureVars, kind, lock, committed, sess, store>>

\* The one statement INSERT INTO t VALUES (v1), (v2), ... is built and handed to
\* self.execute.
PostgresInsertBatchBuild(t) ==
    /\ kind = "Postgres"
    /\ task[t].pc = "called"
    /\ task[t].op = "insert_batch"
    /\ task[t].batch.valid
    /\ task[t].batch.items # <<>>
    /\ LET items  == task[t].batch.items
           values == [i \in 1..Len(items) |-> to_sql_value(items[i])]
       IN  task' = [task EXCEPT ![t] =
                IF \A i \in 1..Len(items) : values[i].ok
                THEN [@ EXCEPT !.pc = "native", !.touched = TRUE,
                               !.stmt = Stmt("INSERT",
                                             [i \in 1..Len(items) |-> values[i].text])]
                ELSE Returned(t, ErrMsg("unsupported value"))]
    /\ UNCHANGED <<pureVars, kind, lock, committed, sess, store>>

PostgresNext(t) ==
    \/ PostgresExecuteSend(t) \/ PostgresExecuteRun(t)
    \/ PostgresQuerySend(t) \/ PostgresQueryRun(t)
    \/ PostgresQueryOneSend(t) \/ PostgresQueryOneRun(t)
    \/ PostgresInsertBatchParse(t) \/ PostgresInsertBatchBuild(t)

(***************************************************************************)
(* redis.rs: impl DatabaseConnection for RedisConnection                   *)
(* The object holds a redis::Client; every call opens a connection of its  *)
(* own with get_connection(), which fails when the server is unreachable.  *)
(***************************************************************************)
IsSpace(c) == c \in {" ", "\t", "\n"}

WordLen(s) ==
    IF \E i \in 1..Len(s) : IsSpace(s[i])
    THEN (CHOOSE i \in 1..Len(s) : IsSpace(s[i]) /\ \A k \in 1..(i - 1) : ~IsSpace(s[k])) - 1
    ELSE Len(s)

RECURSIVE SplitWhitespace(_)
\* str::split_whitespace().collect(): the maximal runs of non-whitespace.
SplitWhitespace(s) ==
    IF s = <<>> THEN <<>>
    ELSE IF IsSpace(Head(s)) THEN SplitWhitespace(Tail(s))
    ELSE <<SubSeq(s, 1, WordLen(s))>> \o SplitWhitespace(SubSeq(s, WordLen(s) + 1, Len(s)))

LowerCase == <<"a", "b", "c", "d", "e", "f", "g", "h", "i", "j", "k", "l", "m",
               "n", "o", "p", "q", "r", "s", "t", "u", "v", "w", "x", "y", "z">>
UpperCase == <<"A", "B", "C", "D", "E", "F", "G", "H", "I", "J", "K", "L", "M",
               "N", "O", "P", "Q", "R", "S", "T", "U", "V", "W", "X", "Y", "Z">>

\* str::to_uppercase()
ToUppercase(s) ==
    [i \in 1..Len(s) |->
        IF \E k \in 1..26 : LowerCase[k] = s[i]
        THEN UpperCase[CHOOSE k \in 1..26 : LowerCase[k] = s[i]]
        ELSE s[i]]

RECURSIVE Join_NoSeparator(_, _)
\* A join that drops the separator.
Join_NoSeparator(parts, sep) ==
    IF parts = <<>> THEN <<>> ELSE parts[1] \o Join_NoSeparator(Tail(parts), sep)

RECURSIVE Join(_, _)
\* [&str]::join(sep)
Join(parts, sep) ==
    IF parts = <<>> THEN <<>>
    ELSE IF Len(parts) = 1 THEN parts[1]
    ELSE parts[1] \o sep \o Join(Tail(parts), sep)

V_SET     == <<"S", "E", "T">>
V_DEL     == <<"D", "E", "L">>
V_HSET    == <<"H", "S", "E", "T">>
V_GET     == <<"G", "E", "T">>
V_HGETALL == <<"H", "G", "E", "T", "A", "L", "L">>

\* The Redis server: a key holds a string or a hash; a command on a key of the other
\* type is refused (WRONGTYPE).
StringEntry(v) == [type |-> "string", s |-> v, h |-> <<>>]
HashEntry(h)   == [type |-> "hash", s |-> <<>>, h |-> h]

Put(st, k, e) == [x \in DOMAIN st \cup {k} |-> IF x = k THEN e ELSE st[x]]
Remove(st, ks) == [x \in DOMAIN st \ ks |-> st[x]]

RedisOk(st, n, val) == [ok |-> TRUE, msg |-> "", store |-> st, n |-> n, val |-> val]
RedisErr(st, msg)   == [ok |-> FALSE, msg |-> msg, store |-> st, n |-> 0, val |-> <<>>]

\* A SET that keeps what a key holds and stores the value beside it.
ServerSet_Append(st, k, v) ==
    RedisOk(Put(st, IF k \in DOMAIN st THEN k \o <<"+">> ELSE k, StringEntry(v)), 1, <<>>)

ServerSet(st, k, v) == RedisOk(Put(st, k, StringEntry(v)), 1, <<>>)

\* A DEL that counts the keys it finds and leaves them.
ServerDel_KeepsKeys(st, ks) ==
    RedisOk(st, Cardinality({ks[i] : i \in 1..Len(ks)} \cap DOMAIN st), <<>>)

ServerDel(st, ks) ==
    LET hit == {ks[i] : i \in 1..Len(ks)} \cap DOMAIN st
    IN  RedisOk(Remove(st, hit), Cardinality(hit), <<>>)

ServerHSet(st, k, f, v) ==
    IF k \in DOMAIN st /\ st[k].type # "hash" THEN RedisErr(st, "WRONGTYPE")
    ELSE LET old == IF k \in DOMAIN st THEN st[k].h ELSE <<>>
         IN  RedisOk(Put(st, k, HashEntry(Put(old, f, v))),
                     IF f \in DOMAIN old THEN 0 ELSE 1, <<>>)

\* GET: n = 1 and the value when the key holds a string, n = 0 (nil) when it is absent.
ServerGet(st, k) ==
    IF k \notin DOMAIN st THEN RedisOk(st, 0, <<>>)
    ELSE IF st[k].type # "string" THEN RedisErr(st, "WRONGTYPE")
    ELSE RedisOk(st, 1, st[k].s)

\* HGETALL: the hash's fields and values; no field when the key is absent.
ServerHGetAll(st, k) ==
    IF k \notin DOMAIN st THEN RedisOk(st, 0, <<>>)
    ELSE IF st[k].type # "hash" THEN RedisErr(st, "WRONGTYPE")
    ELSE RedisOk(st, Cardinality(DOMAIN st[k].h), st[k].h)

\* let mut conn = self.get_connection()?  at the head of execute, query, query_one
RedisConnect(t, op) ==
    /\ kind = "Redis"
    /\ task[t].pc = "called"
    /\ task[t].op = op
    /\ \E up \in BOOLEAN :
        task' = [task EXCEPT ![t] =
                    IF up THEN [@ EXCEPT !.pc = "native", !.touched = TRUE]
                    ELSE [Returned(t, ErrMsg("Connection refused")) EXCEPT !.touched = TRUE]]
    /\ UNCHANGED <<pureVars, kind, lock, committed, sess, store>>

RedisExecuteConnect(t) == RedisConnect(t, "execute")

\* What execute does with the words of its command on the open connection.
RedisExecuteCommand(st, parts) ==
    IF parts = <<>> THEN RedisOk(st, 0, <<>>)
    ELSE LET verb == ToUppercase(parts[1])
         IN  CASE verb = V_SET /\ Len(parts) >= 3 ->
                    LET r == ServerSet(st, parts[2], Join(SubSeq(parts, 3, Len(parts)), <<" ">>))
                    IN  IF r.ok THEN RedisOk(r.store, 1, <<>>) ELSE r
               [] verb = V_DEL /\ Len(parts) >= 2 ->
                    ServerDel(st, SubSeq(parts, 2, Len(parts)))
               [] verb = V_HSET /\ Len(parts) >= 4 ->
                    LET r == ServerHSet(st, parts[2], parts[3],
                                        Join(SubSeq(parts, 4, Len(parts)), <<" ">>))
                    IN  IF r.ok THEN RedisOk(r.store, 1, <<>>) ELSE r
               [] OTHER -> RedisErr(st, "Unsupported Redis command")

RedisExecuteRun(t) ==
    /\ kind = "Redis"
    /\ Running(t, "execute")
    /\ LET r == RedisExecuteCommand(store, SplitWhitespace(task[t].cmd))
       IN  /\ store' = r.store
           /\ task' = [task EXCEPT ![t] =
                          Returned(t, IF r.ok THEN OkCount(r.n) ELSE ErrMsg(r.msg))]
    /\ UNCHANGED <<pureVars, kind, lock, committed, sess>>

RedisQueryConnect(t) == RedisConnect(t, "query")

\* match parts[0].to_uppercase().as_str(): indexing an empty Vec panics.
RedisQueryRun(t) ==
    /\ kind = "Redis"
    /\ Running(t, "query")
    /\ LET parts == SplitWhitespace(task[t].cmd)
       IN  task' = [task EXCEPT ![t] =
            IF parts = <<>> THEN [Returned(t, Panicked) EXCEPT !.pc = "panicked"]
            ELSE LET verb == ToUppercase(parts[1])
                 IN  CASE verb = V_GET /\ Len(parts) = 2 ->
                            LET r == ServerGet(store, parts[2])
                            IN  Returned(t,
                                    IF ~r.ok THEN ErrMsg(r.msg)
                                    ELSE IF r.n = 1
                                    THEN OkJson(JsonObject([f \in {"value"} |-> r.val]))
                                    ELSE OkJson(JsonArray(<<>>)))
                       [] verb = V_HGETALL /\ Len(parts) = 2 ->
                            LET r == ServerHGetAll(store, parts[2])
                            IN  Returned(t, IF r.ok THEN OkJson(JsonObject(r.val))
                                            ELSE ErrMsg(r.msg))
                       [] OTHER -> Returned(t, ErrMsg("Unsupported Redis query"))]
    /\ UNCHANGED <<pureVars, kind, lock, committed, sess, store>>

RedisQueryOneConnect(t) == RedisConnect(t, "query_one")

RedisQueryOneRun(t) ==
    /\ kind = "Redis"
    /\ Running(t, "query_one")
    /\ LET parts == SplitWhitespace(task[t].cmd)
       IN  task' = [task EXCEPT ![t] =
            IF parts = <<>> THEN [Returned(t, Panicked) EXCEPT !.pc = "panicked"]
            ELSE LET verb == ToUppercase(parts[1])
                 IN  CASE verb = V_GET /\ Len(parts) = 2 ->
                            LET r == ServerGet(store, parts[2])
                            IN  Returned(t,
                                    IF ~r.ok THEN ErrMsg(r.msg)
                                    ELSE IF r.n = 1
                                    THEN OkJson(JsonObject([f \in {"value"} |-> r.val]))
                                    ELSE ErrMsg("No data found"))
                       [] verb = V_HGETALL /\ Len(parts) = 2 ->
                            LET r == ServerHGetAll(store, parts[2])
                            IN  Returned(t, IF r.ok THEN OkJson(JsonObject(r.val))
                                            ELSE ErrMsg(r.msg))
                       [] OTHER -> Returned(t, ErrMsg("Unsupported Redis query"))]
    /\ UNCHANGED <<pureVars, kind, lock, committed, sess, store>>

\* serde_json::from_str(json_data)? fails before anything else is done.
RedisInsertBatchParse(t) ==
    /\ kind = "Redis"
    /\ task[t].pc = "called"
    /\ task[t].op = "insert_batch"
    /\ ~task[t].batch.valid
    /\ task' = [task EXCEPT ![t] = Returned(t, ErrMsg("Failed to parse JSON data"))]
    /\ UNCHANGED <<pureVars, kind, lock, committed, sess, store>>

\* let mut conn = self.get_connection()?; let mut count = 0;  (for every valid batch)
RedisInsertBatchConnect(t) ==
    /\ kind = "Redis"
    /\ task[t].pc = "called"
    /\ task[t].op = "insert_batch"
    /\ task[t].batch.valid
    /\ \E up \in BOOLEAN :
        task' = [task EXCEPT ![t] =
                    IF up THEN [@ EXCEPT !.pc = "native", !.touched = TRUE,
                                         !.phase = 1, !.count = 0]
                    ELSE [Returned(t, ErrMsg("Connection refused")) EXCEPT !.touched = TRUE]]
    /\ UNCHANGED <<pureVars, kind, lock, committed, sess, store>>

\* Keys numbered from one.
BatchKey_OneBased(table, i) == table \o <<":">> \o Itoa(i + 1)

\* format!("{}:{}", table, i)
BatchKey(table, i) == table \o <<":">> \o Itoa(i)

\* for (i, item) in items.iter().enumerate() { to_sql_value(item)?;
\*     conn.set(&key, value)?; count += 1; }   The write can fail (connection lost).
RedisInsertBatchSet(t) ==
    /\ kind = "Redis"
    /\ Running(t, "insert_batch")
    /\ task[t].phase <= Len(task[t].batch.items)
    /\ LET value == to_sql_value(task[t].batch.items[task[t].phase])
           key   == BatchKey(S_t, task[t].phase - 1)
       IN  \E sent \in BOOLEAN :
            IF value.ok /\ sent
            THEN /\ store' = ServerSet(store, key, value.text).store
                 /\ task' = [task EXCEPT ![t] =
                                [@ EXCEPT !.phase = @ + 1, !.count = @ + 1]]
            ELSE /\ store' = store
                 /\ task' = [task EXCEPT ![t] =
                                Returned(t, ErrMsg(IF value.ok THEN "broken pipe"
                                                   ELSE "unsupported value"))]
    /\ UNCHANGED <<pureVars, kind, lock, committed, sess>>

\* Ok(count)
RedisInsertBatchDone(t) ==
    /\ kind = "Redis"
    /\ Running(t, "insert_batch")
    /\ task[t].phase > Len(task[t].batch.items)
    /\ task' = [task EXCEPT ![t] = Returned(t, OkCount(task[t].count))]
    /\ UNCHANGED <<pureVars, kind, lock, committed, sess, store>>

RedisNext(t) ==
    \/ RedisExecuteConnect(t) \/ RedisExecuteRun(t)
    \/ RedisQueryConnect(t) \/ RedisQueryRun(t)
    \/ RedisQueryOneConnect(t) \/ RedisQueryOneRun(t)
    \/ RedisInsertBatchParse(t) \/ RedisInsertBatchConnect(t)
    \/ RedisInsertBatchSet(t) \/ RedisInsertBatchDone(t)


(***************************************************************************)
(* types.rs: DbError and its classification.  An error is its variant, for *)
(* Sqlx whether it is sqlx::Error::Database or another sqlx error, and the *)
(* message it carries (for the transparent wrappers the native error's     *)
(* text, for a sqlx database error db_err.message()).                      *)
(***************************************************************************)
DbErrorVariants ==
    {"Config", "Connection", "Pool", "Query", "Transaction", "RowNotFound", "Type",
     "MySql", "Postgres", "Sqlite", "RedisError", "Serialization", "Timeout", "Other",
     "Sqlx", "MySqlAsync", "Rusqlite", "Redis", "Io", "SerdeJson"}

S_constraint == <<"c", "o", "n", "s", "t", "r", "a", "i", "n", "t">>

\* The messages the errors of the model carry.
ErrorMessages ==
    { <<>>, <<"x">>, S_constraint,
      <<"U", " ">> \o S_constraint \o <<" ", "f">>,
      <<"C", "o", "n", "s", "t", "r", "a", "i", "n", "t">>,
      <<"c", "o", "n", "s", "t", "r", "a", "i", "n">>,
      <<"c", "o", "n", "s", "t", " ", "r", "a", "i", "n", "t">> }

DbErrors ==
    {[variant |-> "RowNotFound", sub |-> "", msg |-> <<>>]}
        \cup [variant : DbErrorVariants \ {"RowNotFound", "Sqlx"}, sub : {""},
              msg : ErrorMessages]
        \cup [variant : {"Sqlx"}, sub : {"Database", "Protocol"}, msg : ErrorMessages]

NoErrOut == [fn |-> None, value |-> FALSE]

\* str::contains(needle)
Contains(s, needle) ==
    \E i \in 1..(Len(s) - Len(needle) + 1) : SubSeq(s, i, i + Len(needle) - 1) = needle

\* A classification that forgets the Timeout variant.
is_connection_error_NoTimeout(e) == e.variant \in {"Connection", "Pool"}

\* DbError::is_connection_error
is_connection_error(e) == e.variant \in {"Connection", "Pool", "Timeout"}

\* A classification that looks at the message of every variant.
is_constraint_violation_AnyVariant(e) == Contains(e.msg, S_constraint)

\* DbError::is_constraint_violation
is_constraint_violation(e) ==
    CASE e.variant \in {"MySql", "Postgres", "Sqlite", "RedisError"} ->
            Contains(e.msg, S_constraint)
      [] e.variant = "Redis" -> Contains(e.msg, S_constraint)
      [] e.variant = "Sqlx" ->
            IF e.sub = "Database" THEN Contains(e.msg, S_constraint) ELSE FALSE
      [] e.variant \in {"MySqlAsync", "Rusqlite"} -> Contains(e.msg, S_constraint)
      [] OTHER -> FALSE

\* A caller holds another error.
NewError ==
    /\ err' \in DbErrors
    /\ errOut' = NoErrOut
    /\ UNCHANGED notErrVars

IsConnectionError ==
    /\ errOut.fn = None
    /\ errOut' = [fn |-> "is_connection_error", value |-> is_connection_error(err)]
    /\ UNCHANGED <<err, notErrVars>>

IsConstraintViolation ==
    /\ errOut.fn = None
    /\ errOut' = [fn |-> "is_constraint_violation", value |-> is_constraint_violation(err)]
    /\ UNCHANGED <<err, notErrVars>>

\* The state of the other specifications' variables while they are not exercised.
ErrIdle == err = [variant |-> "RowNotFound", sub |-> "", msg |-> <<>>] /\ errOut = NoErrOut


(***************************************************************************)
(* lib.rs: trait Transaction.  begin_transaction() hands the caller a      *)
(* Box<dyn Transaction>; commit and rollback take it by value              *)
(* (self: Box<Self>), the other methods borrow it.  What the methods do to *)
(* the backend is the behaviour the transaction contract describes: writes *)
(* are pending until commit, a savepoint marks a point to roll back to. On *)
(* a backend without savepoints (Redis) the savepoint methods are refused. *)
(***************************************************************************)
TxMethods ==
    {"commit", "rollback", "execute", "query", "savepoint", "rollback_to_savepoint",
     "release_savepoint"}

SavepointNames == {"a", "b"}

\* A contract whose commit and rollback borrow the transaction too.
TxHeldAfter_Borrowed(method) == TRUE

\* Whether the caller still holds the transaction after calling a method: commit and
\* rollback consume the Box, the others take &self or &mut self.
TxHeldAfter(method) == method \notin {"commit", "rollback"}

NoTxRes == [method |-> None, name |-> "", tag |-> "None", kind |-> ""]
TxOk(method, name) == [method |-> method, name |-> name, tag |-> "Ok", kind |-> ""]
TxErr(method, name, k) == [method |-> method, name |-> name, tag |-> "Err", kind |-> k]

NoTxn ==
    [id |-> 0, state |-> "None", held |-> FALSE, writes |-> <<>>, savepoints |-> <<>>,
     ops |-> 0, res |-> NoTxRes, base |-> <<>>, snap |-> <<>>, hist |-> <<>>]

\* The last four calls on the transaction (bookkeeping of the model).
Remember(hist, res) ==
    IF Len(hist) < 4 THEN Append(hist, res) ELSE Append(Tail(hist), res)

\* The transaction after a call that returned res.
TxAfter(tx, res) ==
    [tx EXCEPT !.res = res, !.ops = @ + 1, !.held = TxHeldAfter(res.method),
               !.hist = Remember(@, res)]

\* A backend list that takes every backend to have savepoints.
HasSavepoints_Always(k) == TRUE

\* Whether the backend has savepoints.
HasSavepoints(k) == k # "Redis"

\* A rollback to a savepoint that undoes nothing.
UndoTo_Nothing(writes, mark) == writes

\* The pending writes after a rollback to the savepoint taken at mark.
UndoTo(writes, mark) == SubSeq(writes, 1, mark)

\* The position of the savepoint of that name, 0 when there is none.
SavepointAt(sps, name) ==
    IF \E i \in 1..Len(sps) : sps[i].name = name
    THEN CHOOSE i \in 1..Len(sps) : sps[i].name = name
    ELSE 0

WithoutSavepoint(sps, name) ==
    IF SavepointAt(sps, name) = 0 THEN sps
    ELSE SubSeq(sps, 1, SavepointAt(sps, name) - 1)
            \o SubSeq(sps, SavepointAt(sps, name) + 1, Len(sps))

\* DatabaseConnection::begin_transaction: the connection is the transaction's until it
\* is committed or rolled back.
BeginTransaction ==
    /\ ~txn.held
    /\ txn.ops < MaxTxOps
    /\ txn' = [NoTxn EXCEPT !.id = txn.id + 1, !.state = "Open", !.held = TRUE,
                            !.ops = txn.ops + 1, !.base = persisted]
    /\ UNCHANGED <<persisted, kind, notTxVars>>

\* Transaction::execute: an insert that the backend accepts, or one that it refuses.
TxExecute ==
    /\ txn.held
    /\ txn.ops < MaxTxOps
    /\ \E accepted \in BOOLEAN :
        txn' = IF accepted
               THEN [TxAfter(txn, TxOk("execute", "")) EXCEPT !.writes = Append(@, txn.ops)]
               ELSE TxAfter(txn, TxErr("execute", "", "Query"))
    /\ UNCHANGED <<persisted, kind, notTxVars>>

\* Transaction::query
TxQuery ==
    /\ txn.held
    /\ txn.ops < MaxTxOps
    /\ txn' = TxAfter(txn, TxOk("query", ""))
    /\ UNCHANGED <<persisted, kind, notTxVars>>

\* Transaction::savepoint: a savepoint of a name already in use takes its place.
TxSavepoint ==
    /\ txn.held
    /\ txn.ops < MaxTxOps
    /\ \E name \in SavepointNames :
        txn' = IF HasSavepoints(kind)
               THEN [TxAfter(txn, TxOk("savepoint", name)) EXCEPT
                        !.savepoints = Append(WithoutSavepoint(@, name),
                                              [name |-> name, mark |-> Len(txn.writes)]),
                        !.snap = Put(@, name, txn.writes)]
               ELSE TxAfter(txn, TxErr("savepoint", name, "Transaction"))
    /\ UNCHANGED <<persisted, kind, notTxVars>>

\* Transaction::rollback_to_savepoint: the writes and the savepoints made after the
\* savepoint are undone, the savepoint and the transaction stay.
TxRollbackToSavepoint ==
    /\ txn.held
    /\ txn.ops < MaxTxOps
    /\ \E name \in SavepointNames :
        LET at == SavepointAt(txn.savepoints, name)
        IN  txn' = IF HasSavepoints(kind) /\ at # 0
                   THEN [TxAfter(txn, TxOk("rollback_to_savepoint", name)) EXCEPT
                            !.writes = UndoTo(@, txn.savepoints[at].mark),
                            !.savepoints = SubSeq(@, 1, at)]
                   ELSE TxAfter(txn, TxErr("rollback_to_savepoint", name, "Transaction"))
    /\ UNCHANGED <<persisted, kind, notTxVars>>

\* Transaction::release_savepoint: the savepoint and those made after it are forgotten,
\* the writes stay.
TxReleaseSavepoint ==
    /\ txn.held
    /\ txn.ops < MaxTxOps
    /\ \E name \in SavepointNames :
        LET at == SavepointAt(txn.savepoints, name)
        IN  txn' = IF HasSavepoints(kind) /\ at # 0
                   THEN [TxAfter(txn, TxOk("release_savepoint", name)) EXCEPT
                            !.savepoints = SubSeq(@, 1, at - 1)]
                   ELSE TxAfter(txn, TxErr("release_savepoint", name, "Transaction"))
    /\ UNCHANGED <<persisted, kind, notTxVars>>

\* Transaction::commit(self: Box<Self>): the pending writes become durable.
TxCommit ==
    /\ txn.held
    /\ txn.ops < MaxTxOps
    /\ txn' = [TxAfter(txn, TxOk("commit", "")) EXCEPT
                  !.state = "Committed", !.writes = <<>>, !.savepoints = <<>>]
    /\ persisted' = persisted \o txn.writes
    /\ UNCHANGED <<kind, notTxVars>>

\* Transaction::rollback(self: Box<Self>): the pending writes are dropped.
TxRollback ==
    /\ txn.held
    /\ txn.ops < MaxTxOps
    /\ txn' = [TxAfter(txn, TxOk("rollback", "")) EXCEPT
                  !.state = "RolledBack", !.writes = <<>>, !.savepoints = <<>>]
    /\ UNCHANGED <<persisted, kind, notTxVars>>

TxNext ==
    \/ BeginTransaction \/ TxExecute \/ TxQuery \/ TxSavepoint \/ TxRollbackToSavepoint
    \/ TxReleaseSavepoint \/ TxCommit \/ TxRollback

TxIdle == txn = NoTxn /\ persisted = <<>>

(***************************************************************************)
(* lib.rs: trait ConnectionPool and PoolStatus.  A pool built by           *)
(* DatabaseFactory::create_pool hands out connections with get(); a        *)
(* connection goes back to the pool when its holder drops it.  The pool    *)
(* types themselves are described by the pool contract: get() takes an     *)
(* idle connection, opens one while fewer than max_size are live, and      *)
(* otherwise waits until one comes back or the acquire timeout elapses.    *)
(***************************************************************************)
PoolTasks == {"p1", "p2", "p3"}

\* PoolConfig::max_size of the pools of the model.
PoolSizes == {1, 2}

\* PoolStatus
NewPool(max) == [max_size |-> max, size |-> 0, available |-> 0, waiting |-> 0]

NoHolder == [pc |-> "idle", res |-> "None"]

\* A pool that opens a connection whenever none is idle.
PoolCanOpen_Always(p) == TRUE

\* Whether the pool may open one more connection.
PoolCanOpen(p) == p.size < p.max_size

\* The pool after it has handed a connection to a caller.
PoolHandOut(p) ==
    IF p.available > 0 THEN [p EXCEPT !.available = @ - 1]
    ELSE [p EXCEPT !.size = @ + 1]

\* ConnectionPool::get: a connection at once when one is idle or can be opened,
\* otherwise the caller waits.
PoolGet(t) ==
    /\ holder[t].pc \in {"idle", "failed"}
    /\ IF pool.available > 0 \/ PoolCanOpen(pool)
       THEN /\ pool' = PoolHandOut(pool)
            /\ holder' = [holder EXCEPT ![t] = [pc |-> "holding", res |-> "Ok"]]
       ELSE /\ pool' = [pool EXCEPT !.waiting = @ + 1]
            /\ holder' = [holder EXCEPT ![t] = [pc |-> "waiting", res |-> "None"]]
    /\ UNCHANGED <<kind, notPoolVars>>

\* A waiting get() returns once a connection is idle or can be opened.
PoolAcquire(t) ==
    /\ holder[t].pc = "waiting"
    /\ pool.available > 0 \/ PoolCanOpen(pool)
    /\ pool' = [PoolHandOut(pool) EXCEPT !.waiting = @ - 1]
    /\ holder' = [holder EXCEPT ![t] = [pc |-> "holding", res |-> "Ok"]]
    /\ UNCHANGED <<kind, notPoolVars>>

\* A pool whose waiters time out whatever it has to hand out.
PoolTimeoutDue_Anytime(p) == TRUE

\* connection_timeout elapses for a waiter only while the pool has nothing to hand out.
PoolTimeoutDue(p) == p.available = 0 /\ ~PoolCanOpen(p)

\* A waiting get() fails with a Timeout error when connection_timeout elapses with no
\* connection to hand out.
PoolTimeout(t) ==
    /\ holder[t].pc = "waiting"
    /\ PoolTimeoutDue(pool)
    /\ pool' = [pool EXCEPT !.waiting = @ - 1]
    /\ holder' = [holder EXCEPT ![t] = [pc |-> "failed", res |-> "Timeout"]]
    /\ UNCHANGED <<kind, notPoolVars>>

\* The holder drops its connection: it is idle in the pool again.
PoolRelease(t) ==
    /\ holder[t].pc = "holding"
    /\ pool' = [pool EXCEPT !.available = @ + 1]
    /\ holder' = [holder EXCEPT ![t] = [pc |-> "idle", res |-> "None"]]
    /\ UNCHANGED <<kind, notPoolVars>>

\* An idle connection past max_lifetime or idle_timeout is retired.
PoolRetire ==
    /\ pool.available > 0
    /\ pool' = [pool EXCEPT !.available = @ - 1, !.size = @ - 1]
    /\ UNCHANGED <<holder, kind, notPoolVars>>

PoolNext ==
    \/ \E t \in PoolTasks : PoolGet(t) \/ PoolAcquire(t) \/ PoolTimeout(t) \/ PoolRelease(t)
    \/ PoolRetire

PoolIdle == pool = NewPool(1) /\ holder = [t \in PoolTasks |-> NoHolder]

(***************************************************************************)
(* bubble-macro lib.rs: the main function that #[bubble] generates.  The   *)
(* runtime's main thread drives select! over the shutdown channel and      *)
(* inner_main (the start-up steps followed by the user's body); a spawned  *)
(* task listens for Ctrl+C on a worker thread.  select! polls its branches *)
(* in an order chosen afresh at every poll and takes the first that is     *)
(* ready; inner_main advances only while it is polled, up to the body's    *)
(* next suspension or its return.                                          *)
(***************************************************************************)
\* What the attribute list and the file system give: db_type and db_url both set,
\* the configuration file present.
NewApp(db, file) ==
    [db |-> db, file |-> file, pc |-> "unpolled", steps |-> <<>>, rxPolled |-> FALSE,
     listener |-> "waiting", channel |-> "open", body |-> None, result |-> None,
     exit |-> -1]

\* select! is polled and inner_main has not returned.
AppAtPoll == app.pc \in {"unpolled", "yielded"}

\* Where inner_main goes on when it is polled.
AppResumed == IF app.pc = "unpolled" THEN "logging" ELSE "body"

\* The oneshot receiver is ready: a value was sent, or the sender is gone
\* (Err(RecvError)); the branch's pattern `_` takes either.
ShutdownReady(channel) == channel # "open"

\* select! polls inner_main before the shutdown channel.
AppPollMain ==
    /\ AppAtPoll
    /\ app' = [app EXCEPT !.pc = AppResumed, !.rxPolled = FALSE]
    /\ UNCHANGED <<kind, notAppVars>>

\* select! polls the shutdown channel first: `_ = &mut shutdown_rx` is taken when the
\* receiver is ready, otherwise inner_main is polled next.
AppPollShutdown ==
    /\ AppAtPoll
    /\ app' = IF ShutdownReady(app.channel)
              THEN [app EXCEPT !.pc = "decided", !.result = "Interrupted"]
              ELSE [app EXCEPT !.pc = AppResumed, !.rxPolled = TRUE]
    /\ UNCHANGED <<kind, notAppVars>>

\* init_logging(#log_level)
AppInitLogging ==
    /\ app.pc = "logging"
    /\ app' = [app EXCEPT !.pc = "database", !.steps = Append(@, "logging")]
    /\ UNCHANGED <<kind, notAppVars>>

\* if !#db_type.is_empty() && !#db_url.is_empty() { init_database(..).await.expect(..) }
AppInitDatabase ==
    /\ app.pc = "database"
    /\ app' = [app EXCEPT !.pc = "config",
                          !.steps = IF app.db THEN Append(@, "database") ELSE @]
    /\ UNCHANGED <<kind, notAppVars>>

\* if Path::new(#config_file).exists() { load_config_file(..).expect(..) }: a file
\* that cannot be read panics.
AppLoadConfigFile ==
    /\ app.pc = "config"
    /\ \E readable \in BOOLEAN :
        app' = IF ~app.file THEN [app EXCEPT !.pc = "args"]
               ELSE IF readable
               THEN [app EXCEPT !.pc = "args", !.steps = Append(@, "config")]
               ELSE [app EXCEPT !.pc = "panicked", !.exit = 101]
    /\ UNCHANGED <<kind, notAppVars>>

\* parse_command_line_args(&args); log::info!("Executing user application")
AppParseArgs ==
    /\ app.pc = "args"
    /\ app' = [app EXCEPT !.pc = "body", !.steps = Append(@, "args")]
    /\ UNCHANGED <<kind, notAppVars>>

\* An exit code that is 1 only for an Err of the body.
AppExitCode_ZeroUnlessErr(result) == IF result = "Err" THEN 1 ELSE 0

AppExitCode(result) == IF result = "Ok" THEN 0 ELSE 1

\* #block runs up to its next suspension or to its return.  When it suspends, the
\* shutdown channel is polled next unless this poll has polled it already.
AppBodySegment ==
    /\ app.pc = "body"
    /\ \E outcome \in {"Pending", "Ok", "Err"} :
        app' = IF outcome # "Pending"
               THEN [app EXCEPT !.pc = "decided", !.body = outcome, !.result = outcome]
               ELSE IF ~app.rxPolled /\ ShutdownReady(app.channel)
               THEN [app EXCEPT !.pc = "decided", !.result = "Interrupted"]
               ELSE [app EXCEPT !.pc = "yielded"]
    /\ UNCHANGED <<kind, notAppVars>>

\* match result { Ok(_) => exit(0), Err(err) => exit(1) }
AppExit ==
    /\ app.pc = "decided"
    /\ app' = [app EXCEPT !.pc = "exited", !.exit = AppExitCode(app.result)]
    /\ UNCHANGED <<kind, notAppVars>>

\* tokio::signal::ctrl_c().await is Ok(()): shutdown_tx.send(())
ListenerSignal ==
    /\ app.listener = "waiting"
    /\ app.pc \notin {"exited", "panicked"}
    /\ app' = [app EXCEPT !.listener = "signalled", !.channel = "sent"]
    /\ UNCHANGED <<kind, notAppVars>>

\* tokio::signal::ctrl_c().await is Err: the error is logged, the task ends and
\* shutdown_tx is dropped with it.
ListenerFail ==
    /\ app.listener = "waiting"
    /\ app.pc \notin {"exited", "panicked"}
    /\ app' = [app EXCEPT !.listener = "failed", !.channel = "closed"]
    /\ UNCHANGED <<kind, notAppVars>>

\* The steps of the main thread.
AppMain ==
    \/ AppPollMain \/ AppPollShutdown
    \/ AppInitLogging \/ AppInitDatabase \/ AppLoadConfigFile \/ AppParseArgs
    \/ AppBodySegment \/ AppExit

AppNext == AppMain \/ ListenerSignal \/ ListenerFail

AppIdle == app = NewApp(FALSE, FALSE)

(***************************************************************************)
(* bubble-macro init.rs: BubbleConfig and parse_bubble_config.  The        *)
(* attribute list arrives as the text of its tokens: key = value pairs     *)
(* separated by commas, a string value written between double quotes.      *)
(***************************************************************************)
K_port == <<"p", "o", "r", "t">>
K_host == <<"h", "o", "s", "t">>
K_workers == <<"w", "o", "r", "k", "e", "r", "s">>
K_db_type == <<"d", "b", "_", "t", "y", "p", "e">>
K_db_url == <<"d", "b", "_", "u", "r", "l">>
K_log_level == <<"l", "o", "g", "_", "l", "e", "v", "e", "l">>
K_config_file == <<"c", "o", "n", "f", "i", "g", "_", "f", "i", "l", "e">>
K_colour == <<"c", "o", "l", "o", "u", "r">>

\* impl Default for BubbleConfig
DefaultBubbleConfig ==
    [port |-> 3000, host |-> <<"1", "2", "7", ".", "0", ".", "0", ".", "1">>, workers |-> 0, db_type |-> <<>>,
     db_url |-> <<>>, log_level |-> <<"i", "n", "f", "o">>,
     config_file |-> <<"c", "o", "n", "f", "i", "g", ".", "t", "o", "m", "l">>]

RECURSIVE Split(_, _)
\* str::split(c): the pieces between the occurrences of c.
Split(s, c) ==
    LET i == IndexOfFirst(s, c)
    IN  IF i = 0 THEN <<s>>
        ELSE <<SubSeq(s, 1, i - 1)>> \o Split(SubSeq(s, i + 1, Len(s)), c)

RECURSIVE TrimStart(_, _)
TrimStart(s, cs) == IF s # <<>> /\ Head(s) \in cs THEN TrimStart(Tail(s), cs) ELSE s

RECURSIVE TrimEnd(_, _)
TrimEnd(s, cs) ==
    IF s # <<>> /\ s[Len(s)] \in cs THEN TrimEnd(SubSeq(s, 1, Len(s) - 1), cs) ELSE s

\* str::trim()
Trim(s) == TrimEnd(TrimStart(s, {" ", "\t", "\n"}), {" ", "\t", "\n"})

\* str::trim_matches(c)
TrimMatches(s, c) == TrimEnd(TrimStart(s, {c}), {c})

\* kv.next().unwrap_or("")
NextOr(pieces, n) == IF Len(pieces) >= n THEN pieces[n] ELSE <<>>

\* value.parse() for an unsigned integer whose type holds 0..max
ParseUnsigned(value, max) ==
    IF value # <<>> /\ (\A i \in 1..Len(value) : IsDigit(value[i])) /\ Len(value) <= 9
          /\ StrToNat(value) <= max
    THEN [ok |-> TRUE, n |-> StrToNat(value)]
    ELSE [ok |-> FALSE, n |-> 0]

\* let mut kv = part.split('='); kv.next() is the key, the next kv.next() the value
ValuePiece(part) == NextOr(Split(part, "="), 2)

\* The body of the loop over the parts: if part.contains('=') { ... match key { ... } }
ApplyPart(config, part) ==
    IF IndexOfFirst(part, "=") = 0 THEN config
    ELSE LET key     == Trim(NextOr(Split(part, "="), 1))
             value   == TrimMatches(Trim(ValuePiece(part)), "\"")
             port    == ParseUnsigned(value, 65535)
             workers == ParseUnsigned(value, 999999999)
         IN  CASE key = K_port -> IF port.ok THEN [config EXCEPT !.port = port.n] ELSE config
               [] key = K_host -> [config EXCEPT !.host = value]
               [] key = K_workers ->
                    IF workers.ok THEN [config EXCEPT !.workers = workers.n] ELSE config
               [] key = K_db_type -> [config EXCEPT !.db_type = value]
               [] key = K_db_url -> [config EXCEPT !.db_url = value]
               [] key = K_log_level -> [config EXCEPT !.log_level = value]
               [] key = K_config_file -> [config EXCEPT !.config_file = value]
               [] OTHER -> config

RECURSIVE ApplyParts(_, _)
ApplyParts(config, parts) ==
    IF parts = <<>> THEN config
    ELSE ApplyParts(ApplyPart(config, Trim(Head(parts))), Tail(parts))

\* parse_bubble_config(attr)
parse_bubble_config(attr_str) ==
    IF attr_str = <<>> THEN DefaultBubbleConfig
    ELSE ApplyParts(DefaultBubbleConfig, Split(attr_str, ","))

\* The values written in the attribute lists of the model: 8080, 70000, "h" and
\* "u?a=b" (a URL with a query string).
AttrValues ==
    { <<"8", "0", "8", "0">>, <<"7", "0", "0", "0", "0">>, <<"\"", "h", "\"">>,
      <<"\"", "u", "?", "a", "=", "b", "\"">> }

AttrKeys ==
    { K_port, K_host, K_workers, K_db_type, K_db_url, K_log_level, K_config_file,
      K_colour }

Assignments == {[key |-> k, value |-> v] : k \in AttrKeys, v \in AttrValues}

\* Attribute lists of no, one and two key = value pairs.
AttrLists ==
    {<<>>} \cup {<<a>> : a \in Assignments} \cup {<<a, b>> : a, b \in Assignments}

RECURSIVE AttrText(_)
\* attr.to_string(): key = value, key = value
AttrText(list) ==
    IF list = <<>> THEN <<>>
    ELSE Head(list).key \o <<" ", "=", " ">> \o Head(list).value
            \o (IF Len(list) > 1 THEN <<",", " ">> \o AttrText(Tail(list)) ELSE <<>>)

NoBubbleConfig == [parsed |-> FALSE, config |-> DefaultBubbleConfig]

\* Another attribute list is written on the main function.
NewAttr ==
    /\ attr' \in AttrLists
    /\ bubbleConfig' = NoBubbleConfig
    /\ UNCHANGED <<kind, notAttrVars>>

\* let config = parse_bubble_config(attr)
ParseBubbleConfig ==
    /\ ~bubbleConfig.parsed
    /\ bubbleConfig' = [parsed |-> TRUE, config |-> parse_bubble_config(AttrText(attr))]
    /\ UNCHANGED <<attr, kind, notAttrVars>>

AttrIdle == attr = <<>> /\ bubbleConfig = NoBubbleConfig

ExtIdle == ErrIdle /\ ValIdle /\ TxIdle /\ PoolIdle /\ AppIdle /\ AttrIdle

(***************************************************************************)
(* Specifications.                                                         *)
(***************************************************************************)
\* The statements two concurrent tasks pass: one of each kind.
ConcExecStatements  == { Stmt("INSERT", <<QuoteLiteral(S_a)>>) }
ConcMySqlExecStatements == ConcExecStatements \cup { Stmt("SELECT_NONE", <<>>) }
ConcQueryStatements == { Stmt("SELECT", <<>>) }
ConcExecuteCommands == { Cmd_SetK1 }
ConcQueryCommands   == { Cmd_GetK1 }
ConcBatches ==
    { [valid |-> FALSE, items |-> <<>>], [valid |-> TRUE, items |-> <<JStr(S_a)>>] }

AdapterStep(t) == MySqlNext(t) \/ SqliteNext(t) \/ PostgresNext(t) \/ RedisNext(t)

\* One task at a time uses the connection object, with every statement of the model.
Next ==
    \E t \in Tasks :
        \/ CallExecute(t, IF kind = "MySql" THEN MySqlExecStatements ELSE ExecStatements,
                       RedisExecuteCommands)
        \/ CallQuery(t, QueryStatements, RedisQueryCommands)
        \/ CallQueryOne(t, QueryStatements, RedisQueryCommands)
        \/ CallInsertBatch(t, Batches)
        \/ AdapterStep(t)

\* Concurrent tasks use the connection object.
ConcNext ==
    \E t \in Tasks :
        \/ CallExecute(t, IF kind = "MySql" THEN ConcMySqlExecStatements
                          ELSE ConcExecStatements, ConcExecuteCommands)
        \/ CallQuery(t, ConcQueryStatements, ConcQueryCommands)
        \/ CallQueryOne(t, ConcQueryStatements, ConcQueryCommands)
        \/ CallInsertBatch(t, ConcBatches)
        \/ AdapterStep(t)

Init ==
    /\ kind \in DatabaseType
    /\ task = [t \in Tasks |-> IF t = "t1" THEN IdleTask ELSE AbsentTask]
    /\ lock = None
    /\ committed = <<>>
    /\ sess = NoSession
    /\ store = <<>>
    /\ ExtIdle
    /\ cfg = ScenarioConfig
    /\ connStr = NoConnStr
    /\ sqlIn = <<>>
    /\ sqlOut = NoSqlOut

ConcInit ==
    /\ kind \in DatabaseType
    /\ task = [t \in Tasks |-> IdleTask]
    /\ lock = None
    /\ committed = <<>>
    /\ sess = NoSession
    /\ store = <<>>
    /\ ExtIdle
    /\ cfg = ScenarioConfig
    /\ connStr = NoConnStr
    /\ sqlIn = <<>>
    /\ sqlOut = NoSqlOut

ConfigSpecInit ==
    /\ cfg \in Configs
    /\ connStr = NoConnStr
    /\ sqlIn = <<>>
    /\ sqlOut = NoSqlOut
    /\ kind = "Sqlite"
    /\ task = [t \in Tasks |-> IF t = "t1" THEN IdleTask ELSE AbsentTask]
    /\ lock = None
    /\ committed = <<>>
    /\ sess = NoSession
    /\ store = <<>>
    /\ ExtIdle

SqlSpecInit ==
    /\ sqlIn \in SqlStrings
    /\ sqlOut = NoSqlOut
    /\ cfg = ScenarioConfig
    /\ connStr = NoConnStr
    /\ kind = "Sqlite"
    /\ task = [t \in Tasks |-> IF t = "t1" THEN IdleTask ELSE AbsentTask]
    /\ lock = None
    /\ committed = <<>>
    /\ sess = NoSession
    /\ store = <<>>
    /\ ExtIdle

PoolSpecInit ==
    /\ pool \in {NewPool(max) : max \in PoolSizes}
    /\ holder = [t \in PoolTasks |-> NoHolder]
    /\ TxIdle
    /\ AppIdle
    /\ AttrIdle
    /\ ErrIdle
    /\ ValIdle
    /\ kind \in DatabaseType
    /\ cfg = ScenarioConfig
    /\ connStr = NoConnStr
    /\ sqlIn = <<>>
    /\ sqlOut = NoSqlOut
    /\ task = [t \in Tasks |-> IF t = "t1" THEN IdleTask ELSE AbsentTask]
    /\ lock = None
    /\ committed = <<>>
    /\ sess = NoSession
    /\ store = <<>>

\* Everything but the application and the attribute list at rest.
OthersIdle ==
    /\ ErrIdle
    /\ ValIdle
    /\ TxIdle
    /\ PoolIdle
    /\ kind = "Sqlite"
    /\ cfg = ScenarioConfig
    /\ connStr = NoConnStr
    /\ sqlIn = <<>>
    /\ sqlOut = NoSqlOut
    /\ task = [t \in Tasks |-> IF t = "t1" THEN IdleTask ELSE AbsentTask]
    /\ lock = None
    /\ committed = <<>>
    /\ sess = NoSession
    /\ store = <<>>

AppSpecInit ==
    /\ app \in {NewApp(db, file) : db \in BOOLEAN, file \in BOOLEAN}
    /\ AttrIdle
    /\ OthersIdle

AttrSpecInit ==
    /\ attr \in AttrLists
    /\ bubbleConfig = NoBubbleConfig
    /\ AppIdle
    /\ OthersIdle

TxSpecInit ==
    /\ TxIdle
    /\ AppIdle
    /\ AttrIdle
    /\ PoolIdle
    /\ ErrIdle
    /\ ValIdle
    /\ kind \in DatabaseType
    /\ cfg = ScenarioConfig
    /\ connStr = NoConnStr
    /\ sqlIn = <<>>
    /\ sqlOut = NoSqlOut
    /\ task = [t \in Tasks |-> IF t = "t1" THEN IdleTask ELSE AbsentTask]
    /\ lock = None
    /\ committed = <<>>
    /\ sess = NoSession
    /\ store = <<>>

ValueSpecInit ==
    /\ colValue \in MySqlDates \cup MySqlTimes
    /\ colText = NoValOut
    /\ ErrIdle
    /\ TxIdle
    /\ AppIdle
    /\ AttrIdle
    /\ PoolIdle
    /\ cfg = ScenarioConfig
    /\ connStr = NoConnStr
    /\ sqlIn = <<>>
    /\ sqlOut = NoSqlOut
    /\ kind = "MySql"
    /\ task = [t \in Tasks |-> IF t = "t1" THEN IdleTask ELSE AbsentTask]
    /\ lock = None
    /\ committed = <<>>
    /\ sess = NoSession
    /\ store = <<>>

ErrSpecInit ==
    /\ err \in DbErrors
    /\ errOut = NoErrOut
    /\ ValIdle
    /\ TxIdle
    /\ AppIdle
    /\ AttrIdle
    /\ PoolIdle
    /\ cfg = ScenarioConfig
    /\ connStr = NoConnStr
    /\ sqlIn = <<>>
    /\ sqlOut = NoSqlOut
    /\ kind = "Sqlite"
    /\ task = [t \in Tasks |-> IF t = "t1" THEN IdleTask ELSE AbsentTask]
    /\ lock = None
    /\ committed = <<>>
    /\ sess = NoSession
    /\ store = <<>>

\* A task using a connection object of some backend.
Spec == Init /\ [][Next]_vars

\* Two tasks sharing a connection object of some backend.
SpecConc == ConcInit /\ [][ConcNext]_vars

\* Derivation of connection strings.
SpecConfig == ConfigSpecInit /\ [][NewConfig \/ DeriveConnectionString]_vars

\* Classification of errors.
SpecErr == ErrSpecInit /\ [][NewError \/ IsConnectionError \/ IsConstraintViolation]_vars

\* Rendering of MySQL date/time and duration values.
SpecValue == ValueSpecInit /\ [][NewValue \/ RenderInQuery \/ RenderInQueryOne]_vars

\* A caller using transactions of a connection.
SpecTx == TxSpecInit /\ [][TxNext]_vars

\* Tasks sharing a connection pool.
SpecPool == PoolSpecInit /\ [][PoolNext]_vars

\* The same tasks with the timer and the wake-up of every waiting get() running: a
\* waiting get() is resumed with a connection or by its connection_timeout.
SpecPoolLive ==
    /\ SpecPool
    /\ \A t \in PoolTasks : WF_vars(PoolAcquire(t) \/ PoolTimeout(t))

\* An application wrapped by #[bubble], from the start of the runtime to its exit.
SpecApp == AppSpecInit /\ [][AppNext]_vars

\* The same application with its main thread running: block_on keeps polling select!,
\* and a polled body reaches its next suspension or its return.
SpecAppLive == SpecApp /\ WF_vars(AppMain)

\* parse_bubble_config on attribute lists.
SpecAttr == AttrSpecInit /\ [][NewAttr \/ ParseBubbleConfig]_vars

\* Rendering of SQL string literals.
SpecSql == SqlSpecInit /\ [][NewSqlString \/ ToSqlString \/ ToSqlStr]_vars

(***************************************************************************)
(* Claims about the adapters (checked under Spec and SpecConc).            *)
(***************************************************************************)
Finished(t, op) == task[t].pc = "done" /\ task[t].op = op

\* The text the table stores for a batch item.
ItemText(item) == StoredText(ReadSqlLiteral(to_sql_value(item).text))

\* C1: on the MySQL and SQLite adapters insert_batch is all-or-nothing: no record of
\* a batch whose insert_batch failed is ever persisted, whatever is issued afterwards
\* on the connection, and every record of a batch whose insert_batch returned Ok is
\* persisted.
C1_BatchAllOrNothing ==
    kind \in {"MySql", "Sqlite"} =>
        /\ \A i \in 1..Len(committed) : committed[i].origin # "failed"
        /\ \A t \in Tasks :
            (Finished(t, "insert_batch") /\ task[t].res.tag = "Ok") =>
                \A i \in 1..Len(task[t].batch.items) :
                    ItemText(task[t].batch.items[i]) \in TextsOf(committed)

\* C2: for each adapter, insert_batch with an empty record list returns 0 and does
\* nothing on the underlying connection: no lock taken, no connection opened, no
\* statement or command sent.
C2_EmptyBatchTouchesNothing ==
    \A t \in Tasks :
        (Finished(t, "insert_batch") /\ task[t].batch.valid /\ task[t].batch.items = <<>>)
            => (task[t].res = OkCount(0) /\ ~task[t].touched)

\* The first row of the table as a finished SELECT of the only task saw it.
FirstRowText == (committed \o sess.pending)[1].text

\* C3: for every adapter, query_one fails with the RowNotFound error kind when the
\* result is empty (no row; a Redis key that does not exist), and returns the mapping
\* of the first row when there is one.
C3_QueryOneRowNotFound ==
    \A t \in Tasks :
        Finished(t, "query_one") =>
            /\ (kind # "Redis" /\ task[t].stmt.verb = "SELECT_NONE") =>
                    (task[t].res.tag = "Err" /\ task[t].res.kind = "RowNotFound")
            /\ (kind # "Redis" /\ task[t].stmt.verb = "SELECT"
                    /\ committed \o sess.pending = <<>>) =>
                    (task[t].res.tag = "Err" /\ task[t].res.kind = "RowNotFound")
            /\ (kind # "Redis" /\ task[t].stmt.verb = "SELECT"
                    /\ committed \o sess.pending # <<>>) =>
                    task[t].res = OkJson(JsonObject([c \in {"v"} |-> FirstRowText]))
            /\ (kind = "Redis" /\ task[t].touched /\ task[t].res.msg # "Connection refused"
                    /\ task[t].cmd \in {Cmd_GetK1, Cmd_HGetAll}
                    /\ <<"k", "1">> \notin DOMAIN store) =>
                    (task[t].res.tag = "Err" /\ task[t].res.kind = "RowNotFound")

\* The command language of the Redis adapter: SET key value..., DEL key...,
\* HSET key field value..., GET key, HGETALL key.
Recognized(cmd) ==
    LET parts == SplitWhitespace(cmd)
    IN  /\ parts # <<>>
        /\ LET verb == ToUppercase(parts[1])
           IN  \/ verb = V_SET /\ Len(parts) >= 3
               \/ verb = V_DEL /\ Len(parts) >= 2
               \/ verb = V_HSET /\ Len(parts) >= 4
               \/ verb = V_GET /\ Len(parts) = 2
               \/ verb = V_HGETALL /\ Len(parts) = 2

\* C4: on the Redis adapter, an input to execute, query or query_one that is not a
\* recognized command with a valid argument count (an unknown verb, too few or too
\* many arguments, empty input) fails with an unsupported-command error and leaves
\* the store unchanged.
C4_UnsupportedCommandFails ==
    [][\A t \in Tasks :
        (/\ kind = "Redis"
         /\ task[t].pc = "native"
         /\ task[t].op \in {"execute", "query", "query_one"}
         /\ ~Recognized(task[t].cmd)
         /\ task'[t].pc # "native")
            => /\ task'[t].res.tag = "Err"
               /\ task'[t].res.msg \in {"Unsupported Redis command", "Unsupported Redis query"}
               /\ store' = store]_vars

\* C5: no public operation of an adapter panics, for any input string: every failure
\* is returned as an error value, also for an empty or whitespace-only Redis command.
C5_NoPanic == \A t \in Tasks : task[t].pc # "panicked" /\ task[t].res.tag # "Panic"

\* C6: at most one operation is in flight on a connection object at any time: a
\* second task does not start its native call before the first has completed.
C6_OneOperationInFlight == Cardinality({t \in Tasks : task[t].pc = "native"}) <= 1

\* C7: on the query and execute paths of every adapter a failure, also a column
\* value that cannot be decoded, is returned as an error, never replaced by a default
\* value in the returned rows or count.
C7_NoFailureDefaulted == \A t \in Tasks : ~task[t].defaulted

(***************************************************************************)
(* Claims about connection_string (checked under SpecConfig).              *)
(***************************************************************************)
SchemeOf(k) ==
    CASE k = "MySql"    -> <<"m", "y", "s", "q", "l">>
      [] k = "Postgres" -> <<"p", "o", "s", "t", "g", "r", "e", "s", "q", "l">>
      [] k = "Redis"    -> <<"r", "e", "d", "i", "s">>

\* The piece `piece` stands in s at position pos.
At(s, pos, piece) ==
    /\ pos + Len(piece) - 1 <= Len(s)
    /\ SubSeq(s, pos, pos + Len(piece) - 1) = piece

ScenarioString ==
    <<"p", "o", "s", "t", "g", "r", "e", "s", "q", "l", ":", "/", "/", "u", ":", "p",
      "@", "l", "o", "c", "a", "l", "h", "o", "s", "t", ":", "5", "4", "3", "2", "/",
      "d">>

\* C8: connection_string() is <scheme>://<username>:<password>@<host>:<port>/<database>
\* with scheme mysql, postgresql or redis for the MySql, Postgres and Redis kinds (the
\* port in decimal without padding), the bare database field for the Sqlite kind, and
\* postgresql://u:p@localhost:5432/d for the scenario's configuration.
C8_ConnectionStringFormat ==
    connStr.derived =>
        LET s == connStr.text IN
        /\ cfg.database_type = "Sqlite" => s = cfg.database
        /\ cfg.database_type # "Sqlite" =>
            LET sch   == SchemeOf(cfg.database_type)
                pUser == Len(sch) + 4
                pPass == pUser + Len(cfg.username) + 1
                pHost == pPass + Len(cfg.password) + 1
                pPort == pHost + Len(cfg.host) + 1
                pDb   == Len(s) - Len(cfg.database) + 1
                port  == SubSeq(s, pPort, pDb - 2)
            IN  /\ At(s, 1, sch)
                /\ At(s, Len(sch) + 1, <<":", "/", "/">>)
                /\ At(s, pUser, cfg.username)
                /\ At(s, pPass - 1, <<":">>)
                /\ At(s, pPass, cfg.password)
                /\ At(s, pHost - 1, <<"@">>)
                /\ At(s, pHost, cfg.host)
                /\ At(s, pPort - 1, <<":">>)
                /\ port # <<>>
                /\ \A i \in 1..Len(port) : IsDigit(port[i])
                /\ Len(port) > 1 => port[1] # "0"
                /\ StrToNat(port) = cfg.port
                /\ At(s, pDb - 1, <<"/">>)
                /\ At(s, pDb, cfg.database)
        /\ cfg = ScenarioConfig => s = ScenarioString

\* C8's case: the scenario's Postgres configuration has been derived.
C8_Witness == connStr.derived /\ cfg = ScenarioConfig

\* C9: for every configuration, also with '@', ':' or '/' in the credentials, the
\* derived string is a valid connection string of the backend's grammar whose user,
\* password, host, port and database are exactly the configuration's fields.
C9_ConnectionStringParsesBack ==
    (connStr.derived /\ cfg.database_type # "Sqlite") =>
        LET u == ParseUrl(SchemeOf(cfg.database_type) \o <<":", "/", "/">>, connStr.text)
        IN  /\ u.valid
            /\ u.username = cfg.username
            /\ u.password = cfg.password
            /\ u.host = cfg.host
            /\ u.port = cfg.port
            /\ u.database = cfg.database

(***************************************************************************)
(* Claims about the SQL string literal (checked under SpecSql).            *)
(***************************************************************************)
QuoteCount(s) == Cardinality({i \in 1..Len(s) : s[i] = Quote})

\* C10: the literal of s is s with every single quote doubled between exactly one
\* leading and one trailing quote: un-doubling its inside gives back s.
C10_StringLiteralQuoting ==
    sqlOut.impl # None =>
        LET t     == sqlOut.text
            inner == SubSeq(t, 2, Len(t) - 1)
        IN  /\ Len(t) >= 2
            /\ t[1] = Quote
            /\ t[Len(t)] = Quote
            /\ QuoteCount(inner) = 2 * QuoteCount(sqlIn)
            /\ Len(inner) = Len(sqlIn) + QuoteCount(sqlIn)
            /\ Undouble(inner) = [ok |-> TRUE, text |-> sqlIn]

\* C10's case: a string with a quote inside has been rendered by the &str impl.
C10_Witness ==
    /\ sqlOut.impl = "str"
    /\ Len(sqlIn) >= 2
    /\ QuoteCount(sqlIn) >= 1
    /\ \E i \in 1..Len(sqlIn) : sqlIn[i] # Quote

(***************************************************************************)
(* Claims about the Redis commands (checked under Spec).                   *)
(***************************************************************************)
S_hello_world == <<"h", "e", "l", "l", "o", " ", "w", "o", "r", "l", "d">>
K1 == <<"k", "1">>

\* The mapping {"value": v} that a GET returns.
ValueObject(v) == OkJson(JsonObject([f \in {"value"} |-> v]))

\* C11: on the Redis adapter execute("SET k v1 ... vn") returns 1 and leaves k holding
\* the value tokens joined by single spaces, and a query("GET k") of a key holding a
\* string returns {"value": that string}; SET k1 hello world leaves k1 holding
\* "hello world", which GET k1 returns as {"value": "hello world"}.
C11_SetThenGet ==
    [][\A t \in Tasks :
        (kind = "Redis" /\ task[t].pc = "native" /\ task'[t].pc = "done"
            /\ SplitWhitespace(task[t].cmd) # <<>>) =>
            LET parts == SplitWhitespace(task[t].cmd)
                verb  == ToUppercase(parts[1])
            IN  /\ (task[t].op = "execute" /\ verb = V_SET /\ Len(parts) >= 3) =>
                    /\ task'[t].res = OkCount(1)
                    /\ parts[2] \in DOMAIN store'
                    /\ store'[parts[2]].type = "string"
                    /\ SplitWhitespace(store'[parts[2]].s) = SubSeq(parts, 3, Len(parts))
                    /\ Len(store'[parts[2]].s)
                         = Len(Join(SubSeq(parts, 3, Len(parts)), <<>>)) + Len(parts) - 3
                /\ (task[t].op = "execute" /\ task[t].cmd = Cmd_SetK1) =>
                    store'[K1] = StringEntry(S_hello_world)
                /\ (task[t].op = "query" /\ verb = V_GET /\ Len(parts) = 2
                        /\ parts[2] \in DOMAIN store /\ store[parts[2]].type = "string") =>
                    task'[t].res = ValueObject(store[parts[2]].s)
                /\ (task[t].op = "query" /\ task[t].cmd = Cmd_GetK1
                        /\ K1 \in DOMAIN store /\ store[K1] = StringEntry(S_hello_world)) =>
                    task'[t].res = ValueObject(S_hello_world)]_vars

\* C11's case: GET k1 has returned the value that SET k1 hello world stored.
C11_Witness ==
    /\ kind = "Redis"
    /\ Finished("t1", "query")
    /\ task["t1"].cmd = Cmd_GetK1
    /\ task["t1"].res = ValueObject(S_hello_world)

\* The keys t:0, t:1, ... of the records of a batch written to table t.
RecordKeys == << <<"t", ":", "0">>, <<"t", ":", "1">>, <<"t", ":", "2">>, <<"t", ":", "3">> >>

\* The first n records of the batch are stored under their keys.
RecordsWritten(st, items, n) ==
    \A i \in 1..n :
        /\ RecordKeys[i] \in DOMAIN st
        /\ st[RecordKeys[i]] = StringEntry(to_sql_value(items[i]).text)

\* C12: Redis insert_batch writes record i under the key table:i and returns the
\* number of records; when the write of record i fails it returns an error and the
\* records 0..i-1 stay stored.
C12_RedisBatchKeysAndPartialFailure ==
    [][\A t \in Tasks :
        (kind = "Redis" /\ Running(t, "insert_batch")) =>
            LET items == task[t].batch.items
                i     == task[t].phase - 1
            IN  /\ RecordsWritten(store, items, i)
                /\ task'[t].pc = "native" => RecordsWritten(store', items, i + 1)
                /\ (task'[t].pc = "done" /\ task'[t].res.tag = "Ok") =>
                        /\ task'[t].res = OkCount(Len(items))
                        /\ RecordsWritten(store', items, Len(items))
                /\ (task'[t].pc = "done" /\ task'[t].res.tag # "Ok") =>
                        /\ task'[t].res.tag = "Err"
                        /\ i < Len(items)
                        /\ RecordsWritten(store', items, i)]_vars

\* C12's case: the write of the second record of a batch failed after the first was
\* stored under t:0.
C12_Witness ==
    /\ kind = "Redis"
    /\ Finished("t1", "insert_batch")
    /\ Len(task["t1"].batch.items) = 2
    /\ task["t1"].res = ErrMsg("broken pipe")
    /\ DOMAIN store = {RecordKeys[1]}
    /\ store[RecordKeys[1]] = StringEntry(to_sql_value(task["t1"].batch.items[1]).text)

(***************************************************************************)
(* Claims about the classification of errors (checked under SpecErr).      *)
(***************************************************************************)
\* C13: is_connection_error is true for the Connection, Pool and Timeout variants and
\* false for every other variant, whatever the message.
C13_ConnectionErrorVariants ==
    errOut.fn = "is_connection_error" =>
        /\ err.variant \in {"Connection", "Pool", "Timeout"} => errOut.value = TRUE
        /\ err.variant \in
              {"Config", "Query", "Transaction", "RowNotFound", "Type", "MySql",
               "Postgres", "Sqlite", "RedisError", "Serialization", "Other", "Sqlx",
               "MySqlAsync", "Rusqlite", "Redis", "Io", "SerdeJson"} => errOut.value = FALSE

\* C13's case: a Timeout error with a message has been classified.
C13_Witness ==
    /\ errOut.fn = "is_connection_error"
    /\ err.variant = "Timeout"
    /\ err.msg = S_constraint

\* The variants that wrap an error of a backend or of its driver.
NativeWrappers ==
    {"MySql", "Postgres", "Sqlite", "RedisError", "Redis", "Sqlx", "MySqlAsync", "Rusqlite"}

\* The message has the marker "constraint" at some position.
HasMarker(m) ==
    \E i \in 1..Len(m) :
        /\ i + 9 <= Len(m)
        /\ <<m[i], m[i + 1], m[i + 2], m[i + 3], m[i + 4], m[i + 5], m[i + 6], m[i + 7],
             m[i + 8], m[i + 9]>> = <<"c", "o", "n", "s", "t", "r", "a", "i", "n", "t">>

\* C14 as stated: is_constraint_violation is true exactly when the error is a native
\* wrapper whose message contains "constraint", and false for every other variant.
C14_ConstraintViolationAsStated ==
    errOut.fn = "is_constraint_violation" =>
        (errOut.value <=> (err.variant \in NativeWrappers /\ HasMarker(err.msg)))

\* C14 as amended: is_constraint_violation is true exactly when the error is a native
\* wrapper whose message contains "constraint" and which, for the Sqlx wrapper, is a
\* database error (sqlx::Error::Database); it is false for every other error,
\* whatever its message.
C14_ConstraintViolationNativeOnly ==
    errOut.fn = "is_constraint_violation" =>
        (errOut.value <=>
            /\ err.variant \in NativeWrappers
            /\ err.variant = "Sqlx" => err.sub = "Database"
            /\ HasMarker(err.msg))

\* C14's case: a sqlx database error whose message has the marker inside has been
\* classified as a constraint violation.
C14_Witness ==
    /\ errOut.fn = "is_constraint_violation"
    /\ err.variant = "Sqlx"
    /\ err.sub = "Database"
    /\ Len(err.msg) > 10
    /\ errOut.value

(***************************************************************************)
(* Claims about the rows a relational adapter returns (checked under Spec). *)
(***************************************************************************)
\* The columns of the result set of a SELECT of the model, and for its one-row
\* results which columns are NULL.
ResultColumns(verb) ==
    CASE verb = "SELECT_TYPED" -> <<"n", "z", "s">>
      [] verb = "SELECT_JOIN"  -> <<"id", "id">>
      [] OTHER                 -> <<"v">>

NullColumns(verb) ==
    CASE verb = "SELECT_TYPED" -> {2}
      [] verb = "SELECT_JOIN"  -> {1}
      [] OTHER                 -> {}

\* The row mappings of a returned result: the objects of query's array, query_one's
\* object.
ReturnedRows(res) ==
    IF res.json.shape = "array" THEN {res.json.items[i] : i \in 1..Len(res.json.items)}
    ELSE IF res.json.shape = "object" THEN {res.json.map}
    ELSE {}

\* A relational query or query_one of task t has returned rows.
RowsReturned(t) ==
    /\ kind \in {"MySql", "Postgres", "Sqlite"}
    /\ task[t].pc = "done"
    /\ task[t].op \in {"query", "query_one"}
    /\ task[t].res.tag = "Ok"

\* C15 as stated: every returned row has exactly one entry for each column of the
\* result set, keyed by the column name, and a NULL column is present with the empty
\* string.
C15_OneEntryPerColumn ==
    \A t \in Tasks :
        RowsReturned(t) =>
            LET cols == ResultColumns(task[t].stmt.verb) IN
            \A m \in ReturnedRows(task[t].res) :
                /\ Cardinality(DOMAIN m) = Len(cols)
                /\ \A i \in 1..Len(cols) : cols[i] \in DOMAIN m
                /\ \A i \in NullColumns(task[t].stmt.verb) : m[cols[i]] = <<>>

\* C15 as amended: every returned row has exactly one entry for each distinct column
\* name of the result set, no other entry, and the entry of a name holds the last
\* column of that name: the empty string when that column is NULL.
C15_OneEntryPerColumnName ==
    \A t \in Tasks :
        RowsReturned(t) =>
            LET cols == ResultColumns(task[t].stmt.verb) IN
            \A m \in ReturnedRows(task[t].res) :
                /\ DOMAIN m = {cols[i] : i \in 1..Len(cols)}
                /\ \A i \in NullColumns(task[t].stmt.verb) :
                        (\A k \in (i + 1)..Len(cols) : cols[k] # cols[i]) =>
                            m[cols[i]] = <<>>
                /\ task[t].stmt.verb = "SELECT_JOIN" => m["id"] = <<"a">>

\* C15's case: a query has returned the row with a NULL column.
C15_Witness ==
    /\ RowsReturned("t1")
    /\ task["t1"].op = "query"
    /\ task["t1"].stmt.verb = "SELECT_TYPED"
    /\ ReturnedRows(task["t1"].res) # {}
    /\ \A m \in ReturnedRows(task["t1"].res) : m["z"] = <<>>

(***************************************************************************)
(* Claims about the text of MySQL date/time values (checked under          *)
(* SpecValue).                                                             *)
(***************************************************************************)
\* In a pattern D stands for one decimal digit, every other character for itself.
MatchesPattern(text, pattern) ==
    /\ Len(text) = Len(pattern)
    /\ \A i \in 1..Len(pattern) :
        IF pattern[i] = "D" THEN IsDigit(text[i]) ELSE text[i] = pattern[i]

\* YYYY-MM-DD HH:MM:SS.ffffff
DateTimePattern ==
    <<"D", "D", "D", "D", "-", "D", "D", "-", "D", "D", " ",
      "D", "D", ":", "D", "D", ":", "D", "D", ".", "D", "D", "D", "D", "D", "D">>

\* HH:MM:SS.ffffff
ClockPattern ==
    <<"D", "D", ":", "D", "D", ":", "D", "D", ".", "D", "D", "D", "D", "D", "D">>

\* <days> days HH:MM:SS.ffffff
MatchesDuration(text) ==
    \E n \in 1..Len(text) :
        /\ \A i \in 1..n : IsDigit(text[i])
        /\ n + 6 <= Len(text)
        /\ SubSeq(text, n + 1, n + 6) = <<" ", "d", "a", "y", "s", " ">>
        /\ MatchesPattern(SubSeq(text, n + 7, Len(text)), ClockPattern)

\* C16: the MySQL adapter renders every date/time value as YYYY-MM-DD HH:MM:SS.ffffff
\* and every duration as <days> days HH:MM:SS.ffffff, with the stated widths, in query
\* and in query_one.
C16_DateTimePatterns ==
    colText.method \in {"query", "query_one"} =>
        /\ colValue.type = "Date" => MatchesPattern(colText.text, DateTimePattern)
        /\ colValue.type = "Time" => MatchesDuration(colText.text)

(***************************************************************************)
(* Claims about transactions (checked under SpecTx).                       *)
(***************************************************************************)
TerminalStates == {"Committed", "RolledBack"}

SavepointMethods == {"savepoint", "rollback_to_savepoint", "release_savepoint"}

\* C18: on the Redis backend savepoint, rollback_to_savepoint and release_savepoint
\* each fail with a Transaction error and change nothing; none returns success.
C18_RedisRejectsSavepoints ==
    [][(kind = "Redis" /\ txn'.id = txn.id /\ txn'.ops # txn.ops
            /\ txn'.res.method \in SavepointMethods) =>
        /\ txn'.res.tag = "Err"
        /\ txn'.res.kind = "Transaction"
        /\ txn'.writes = txn.writes
        /\ txn'.savepoints = <<>>
        /\ txn'.state = txn.state
        /\ persisted' = persisted]_vars

\* C18's case: a rollback_to_savepoint has been refused on Redis after a write.
C18_Witness ==
    /\ kind = "Redis"
    /\ txn.state = "Open"
    /\ txn.writes # <<>>
    /\ txn.res.method = "rollback_to_savepoint"
    /\ txn.res.tag = "Err"

\* savepoint(a), a failing insert, rollback_to_savepoint(a), commit()
SavepointScenario ==
    <<TxOk("savepoint", "a"), TxErr("execute", "", "Query"),
      TxOk("rollback_to_savepoint", "a"), TxOk("commit", "")>>

\* C19: in an open transaction on a relational backend rollback_to_savepoint(a) undoes
\* the writes made after the latest savepoint(a) and leaves the transaction Open; after
\* savepoint(a), a failing insert, rollback_to_savepoint(a) and commit() exactly the
\* writes made before savepoint(a) are persisted.
C19_RollbackToSavepoint ==
    [][(kind # "Redis" /\ txn'.id = txn.id /\ txn'.ops # txn.ops) =>
        /\ (txn'.res.method = "rollback_to_savepoint" /\ txn'.res.tag = "Ok") =>
            /\ txn'.res.name \in DOMAIN txn.snap
            /\ txn'.writes = txn.snap[txn'.res.name]
            /\ txn'.state = "Open"
            /\ txn'.held
            /\ persisted' = persisted
        /\ (txn'.state = "Committed" /\ txn'.hist = SavepointScenario) =>
            persisted' = txn.base \o txn.snap["a"]]_vars

\* C19's case: the scenario has run in a transaction that had written before the
\* savepoint.
C19_Witness ==
    /\ kind # "Redis"
    /\ txn.state = "Committed"
    /\ txn.hist = SavepointScenario
    /\ txn.snap["a"] # <<>>
    /\ persisted = txn.snap["a"]

(***************************************************************************)
(* Claims about the connection pool (checked under SpecPool).              *)
(***************************************************************************)
\* The connections handed out by get() and not yet released.
Outstanding == Cardinality({t \in PoolTasks : holder[t].pc = "holding"})

\* C20: in every state of every interleaving of get() calls and releases, available +
\* in-use <= max_size, and the connections handed out by get() and not yet released
\* never exceed max_size.
C20_PoolWithinMaxSize ==
    /\ pool.available + Outstanding <= pool.max_size
    /\ Outstanding <= pool.max_size
    /\ pool.available + (pool.size - pool.available) <= pool.max_size
    /\ pool.size - pool.available = Outstanding

\* C20's case: every connection of a pool of two is handed out and a third caller
\* waits.
C20_Witness ==
    /\ pool.max_size = 2
    /\ Outstanding = 2
    /\ \E t \in PoolTasks : holder[t].pc = "waiting"

\* C21: every get() eventually completes, with a connection or with a Timeout error; it
\* never waits forever and never fails with Timeout while a connection is available.
C21_GetCompletes ==
    /\ \A t \in PoolTasks : (holder[t].pc = "waiting") ~> (holder[t].pc \in {"holding", "failed"})
    /\ [][\A t \in PoolTasks :
            (holder[t].pc = "waiting" /\ holder'[t].res = "Timeout")
                => (pool.available = 0 /\ pool.size >= pool.max_size)]_vars
    /\ [](\A t \in PoolTasks :
            /\ holder[t].pc = "holding" => holder[t].res = "Ok"
            /\ holder[t].pc = "failed" => holder[t].res = "Timeout")

\* C21's case: one get() has failed with Timeout while the pool's connections are all
\* handed out, and another get() is waiting.
C21_Witness ==
    /\ \E t \in PoolTasks : holder[t].pc = "failed" /\ holder[t].res = "Timeout"
    /\ \E t \in PoolTasks : holder[t].pc = "waiting"
    /\ Outstanding = pool.max_size

(***************************************************************************)
(* Claims about the MySQL adapter's execute and insert_batch.              *)
(***************************************************************************)
\* The rows the statement itself affects when the server accepts it.
OwnAffected(stmt) == IF stmt.verb = "INSERT" THEN Len(stmt.lits) ELSE 0

\* The task is between its statement and its SELECT ROW_COUNT().
BetweenStatementAndRowCount(t) ==
    kind = "MySql" /\ Running(t, "execute") /\ task[t].phase = 1

\* C25: MySqlConnection::execute returns the affected-row count of its own statement:
\* the statement and SELECT ROW_COUNT() run under one hold of the lock, no step of
\* another caller touches the session between them, and a negative count comes back
\* as 0.
C25_ExecuteCountsOwnStatement ==
    [][\A t \in Tasks :
        /\ BetweenStatementAndRowCount(t) =>
              /\ lock = t
              /\ task'[t] = task[t] => (sess' = sess /\ committed' = committed /\ lock' = t)
        /\ (BetweenStatementAndRowCount(t) /\ task'[t].pc = "done") =>
              /\ task'[t].res.tag = "Ok"
              /\ task'[t].res.n = OwnAffected(task[t].stmt)
              /\ task'[t].res.n >= 0
              /\ sess.row_count < 0 => task'[t].res.n = 0]_vars

\* C25's case: an execute of a statement with a result set has returned 0 while
\* another caller was waiting for the connection.
C25_Witness ==
    \E t, u \in Tasks :
        /\ t # u
        /\ kind = "MySql"
        /\ task[t].pc = "done"
        /\ task[t].op = "execute"
        /\ task[t].stmt.verb = "SELECT_NONE"
        /\ task[t].res = OkCount(0)
        /\ task[u].pc = "called"

C28_BatchLeavesNoTransaction ==
    \A t \in Tasks :
        (kind = "MySql" /\ Finished(t, "insert_batch")) =>
            /\ ~sess.tx
            /\ sess.pending = <<>>

\* The keys of table t's records in the store.
PrefixKeys(st) == {k \in DOMAIN st : Len(k) > 2 /\ SubSeq(k, 1, 2) = <<"t", ":">>}

Max(a, b) == IF a >= b THEN a ELSE b

\* C29: Redis insert_batch numbers the records from 0 on every call, so a later batch
\* overwrites the keys of an earlier one instead of appending: the keys of the prefix
\* are always table:0 .. table:(c-1), the write of record i takes their number from c
\* to max(c, i+1) and leaves every other key as it was, and a batch of m records that
\* returns Ok leaves max(n, m) keys, n being their number before it, with
\* table:0 .. table:(m-1) holding its records.
C29_BatchOverwritesFromZero ==
    /\ [](PrefixKeys(store) = {RecordKeys[j] : j \in 1..Cardinality(PrefixKeys(store))})
    /\ [][\A t \in Tasks :
            (kind = "Redis" /\ Running(t, "insert_batch")) =>
                LET items == task[t].batch.items
                    i     == task[t].phase - 1
                    c     == Cardinality(PrefixKeys(store))
                IN  /\ c >= i
                    /\ task'[t].pc = "native" =>
                        /\ PrefixKeys(store') = PrefixKeys(store) \cup {RecordKeys[i + 1]}
                        /\ Cardinality(PrefixKeys(store')) = Max(c, i + 1)
                        /\ store'[RecordKeys[i + 1]]
                             = StringEntry(to_sql_value(items[i + 1]).text)
                        /\ \A k \in DOMAIN store' \ {RecordKeys[i + 1]} :
                              k \in DOMAIN store /\ store'[k] = store[k]
                    /\ (task'[t].pc = "done" /\ task'[t].res.tag = "Ok") =>
                        /\ store' = store
                        /\ Cardinality(PrefixKeys(store')) = Max(c, Len(items))
                        /\ RecordsWritten(store', items, Len(items))]_vars

\* C29's case: a batch of one record has returned Ok after a batch of two: two keys
\* exist, t:0 holds the later batch's record and t:1 still the earlier batch's.
C29_Witness ==
    /\ kind = "Redis"
    /\ Finished("t1", "insert_batch")
    /\ task["t1"].res = OkCount(1)
    /\ task["t1"].batch.items = <<JNum(7)>>
    /\ PrefixKeys(store) = {RecordKeys[1], RecordKeys[2]}
    /\ store[RecordKeys[1]] = StringEntry(to_sql_value(JNum(7)).text)
    /\ store[RecordKeys[2]] = StringEntry(to_sql_value(JStr(S_a)).text)

(***************************************************************************)
(* Claims about the sign of MySQL durations (checked under SpecValue).     *)
(***************************************************************************)
\* The Time value that differs from v only in the negative flag.
Negated(v) == [v EXCEPT !.neg = ~@]

\* A duration other than zero.
NonZero(v) == v.days + v.hours + v.minutes + v.seconds + v.micros > 0

\* C30: the MySQL adapter's rendering of a duration preserves its sign: the text query
\* and query_one give for a Time value (other than zero, whose negation is the same
\* duration) differs from the text of the value that differs from it only in the
\* negative flag.
C30_TimeSignPreserved ==
    (colText.method \in {"query", "query_one"} /\ colValue.type = "Time"
        /\ NonZero(colValue)) =>
        colText.text # MySqlValueText(Negated(colValue))

(***************************************************************************)
(* Claims about an application wrapped by #[bubble] (checked under SpecApp *)
(* and SpecAppLive).                                                       *)
(***************************************************************************)
AppOver == app.pc \in {"exited", "panicked"}

\* The user's body has begun to run.
BodyStarted == app.pc \in {"body", "yielded"} \/ app.body # None

\* C22: the application exits with code 0 exactly when the body returns Ok and with a
\* non-zero code when the body returns Err, and after Ctrl+C has been received while
\* the body is running it shuts down whether or not the body ever finishes: a
\* suspended body is resumed at most once more, and the shutdown channel is polled
\* when it suspends again.
C22_ExitCodeAndShutdown ==
    /\ [](app.pc = "exited" =>
            /\ app.exit = 0 <=> app.body = "Ok"
            /\ app.body = "Err" => app.exit = 1)
    /\ [](app.exit = 0 => app.body = "Ok")
    /\ (app.body = "Ok") ~> (app.exit = 0)
    /\ (app.body = "Err") ~> (app.exit = 1)
    /\ (app.channel = "sent") ~> AppOver
    /\ [][(app.channel = "sent" /\ app.pc = "yielded" /\ app'.pc = "body")
             => ~app'.rxPolled]_vars

\* C22's case: Ctrl+C arrived while the body was suspended, and the application has
\* exited with code 1 without the body returning.
C22_Witness ==
    /\ app.pc = "exited"
    /\ app.exit = 1
    /\ app.listener = "signalled"
    /\ app.result = "Interrupted"
    /\ app.body = None
    /\ Len(app.steps) > 0
    /\ app.steps[Len(app.steps)] = "args"

\* C23: a failure of the Ctrl+C listener is only logged: the body still starts and
\* runs to completion, and its result alone determines the exit code.
C23_ListenerFailureOnlyLogged ==
    (app.listener = "failed" /\ app.pc = "exited") =>
        /\ app.body # None
        /\ app.exit = (IF app.body = "Ok" THEN 0 ELSE 1)

\* The start-up steps in the documented order for the given configuration.
DocumentedSteps(db, file) ==
    <<"logging">> \o (IF file THEN <<"config">> ELSE <<>>) \o <<"args">>
        \o (IF db THEN <<"database">> ELSE <<>>)

IsPrefix(p, q) == Len(p) <= Len(q) /\ SubSeq(q, 1, Len(p)) = p

\* C24: the application starts in the documented sequence: logging, then the
\* configuration file (if it exists), then the command-line arguments, then the
\* database (if db_type and db_url are configured), and only then the body.
C24_StartupSequence ==
    /\ IsPrefix(app.steps, DocumentedSteps(app.db, app.file))
    /\ BodyStarted => app.steps = DocumentedSteps(app.db, app.file)

(***************************************************************************)
(* Claims about parse_bubble_config (checked under SpecAttr).              *)
(***************************************************************************)
\* The written value without the quotes around it.
Unquoted(v) ==
    IF Len(v) >= 2 /\ Head(v) = "\"" /\ v[Len(v)] = "\"" THEN SubSeq(v, 2, Len(v) - 1)
    ELSE v

\* The value written for the key, when the key is written once.
WrittenOnce(list, k) == Cardinality({i \in 1..Len(list) : list[i].key = k}) = 1

Written(list, k) == Unquoted(list[CHOOSE i \in 1..Len(list) : list[i].key = k].value)

NotWritten(list, k) == \A i \in 1..Len(list) : list[i].key # k

\* The field of a text key: the written value, the default when the key is absent.
TextField(list, k, field, default) ==
    /\ WrittenOnce(list, k) => field = Written(list, k)
    /\ NotWritten(list, k) => field = default

\* The field of a numeric key: the written number, the default when the key is absent
\* or its value does not parse.
NumberField(list, k, field, default, max) ==
    /\ WrittenOnce(list, k) =>
        field = (IF ParseUnsigned(Written(list, k), max).ok
                 THEN StrToNat(Written(list, k)) ELSE default)
    /\ NotWritten(list, k) => field = default

\* C27: parse_bubble_config returns the defaults for an empty attribute list; the
\* field of a recognized key equals the written value without its quotes, also when
\* the value contains '='; unrecognized keys and unparsable port or workers values
\* leave the defaults.
C27_ParseBubbleConfig ==
    bubbleConfig.parsed =>
        LET c == bubbleConfig.config
            d == DefaultBubbleConfig
        IN  /\ attr = <<>> => c = d
            /\ NumberField(attr, K_port, c.port, d.port, 65535)
            /\ NumberField(attr, K_workers, c.workers, d.workers, 999999999)
            /\ TextField(attr, K_host, c.host, d.host)
            /\ TextField(attr, K_db_type, c.db_type, d.db_type)
            /\ TextField(attr, K_db_url, c.db_url, d.db_url)
            /\ TextField(attr, K_log_level, c.log_level, d.log_level)
            /\ TextField(attr, K_config_file, c.config_file, d.config_file)

====
